---------------------------- MODULE Spec2Model ----------------------------
(***************************************************************************)
(* RookReader: the ImageLoader (cache, preload thread pool, cancellation   *)
(* tokens) over one Container, as a state machine.                         *)
(*                                                                         *)
(* One calling thread issues the loader's operations (the command layer    *)
(* holds the AppState mutex around every call, so calls are serialised);   *)
(* the thread pool's workers run the preload closures concurrently with    *)
(* it.  Entry identifiers are the integers 1..NumEntries; entry index i of *)
(* the source (0-based) is entries[i + 1].                                 *)
(***************************************************************************)
EXTENDS Integers, Sequences, FiniteSets, TLC

(* ------------------------------ bounds -------------------------------- *)
NumEntries == 2
MaxOps == 3
MaxCpus == 3
MaxDim == 4
MaxFiles == 3
NumPaths == 2
MaxCalls == 2
WordBits == 3

(* ---------------------------- the container --------------------------- *)
entries == [i \in 1..NumEntries |-> i]

EntrySet == {entries[i] : i \in 1..NumEntries}

NoSuchEntry == 0

Names == {NoSuchEntry} \cup EntrySet

MaxHeights == {0, 2}

Kinds == {"ok", "io", "corrupt"}

Min(a, b) == IF a < b THEN a ELSE b

Max(a, b) == IF a > b THEN a ELSE b

VARIABLES
  kind,              \* per entry: readable, unreadable, or readable but undecodable
  max_image_height,  \* ImageLoader.max_image_height
  phase,             \* "none" | "alive" | "dropped" | "panicked"
  thread_pool,       \* number of threads of ImageLoader.thread_pool
  cache,             \* ImageLoader.cache : entry -> Image
  tokens,            \* every AtomicBool allocated so far (TRUE = cancel requested)
  is_preloading_cancel_requested, \* index of the loader's current token
  queue,             \* closures handed to thread_pool.execute and not yet started
  active,            \* closures a pool thread is running
  caller,            \* position of the calling thread inside a loader operation
  ret,               \* what the last completed loader operation returned
  preload_log,       \* the last line a preload closure logged
  ops,               \* number of loader operations the calling thread has entered
  probe,             \* the last application of a function to an input, with its result
  container_state,   \* AppState.container_state: the fields container, image_loader
  settings,          \* AppState.container_state.settings
  format_container   \* a Directory, Zip, Rar or Pdf container with its own cache and pool

vars == <<kind, max_image_height, phase, thread_pool, cache, tokens,
          is_preloading_cancel_requested, queue, active, caller, ret, preload_log,
          ops, probe, container_state, settings, format_container>>

\* What no operation of one ImageLoader changes: the files of its container,
\* its height limit, and everything outside the loader.
env == <<kind, max_image_height, probe, container_state, settings,
         format_container>>

(* ------------------------------- images ------------------------------- *)
\* The file behind entry e: a 3 x (e+1) picture, so that the first entry is
\* within a height limit of 2 and the later ones exceed it.
SrcImage(e) == [data |-> <<"src", e>>, width |-> 3, height |-> e + 1]

Ok(img) == [ok |-> TRUE, image |-> img]

Err(k) == [ok |-> FALSE, err |-> k]

ContainerGetImage(e) ==
  IF e \notin EntrySet THEN Err("EntryNotFound")
  ELSE IF kind[e] = "io" THEN Err("Io")
  ELSE Ok(SrcImage(e))

\* image::DynamicImage::resize(u32::MAX, height, filter): fit into the box,
\* keep the aspect ratio, round half up, never below 1.
RoundDiv(a, b) == (2 * a + b) \div (2 * b)

\* A resize that fits the image into a height x height square.
resize_image_Square(e, image, height) ==
  IF kind[e] = "corrupt" THEN Err("Decode")
  ELSE IF image.width > image.height
  THEN Ok([data |-> <<"jpeg80", image.data, height>>,
           width |-> height,
           height |-> Max(RoundDiv(image.height * height, image.width), 1)])
  ELSE Ok([data |-> <<"jpeg80", image.data, height>>,
           width |-> Max(RoundDiv(image.width * height, image.height), 1),
           height |-> Max(RoundDiv(image.height * height, image.height), 1)])

resize_image(e, image, height) ==
  IF kind[e] = "corrupt" THEN Err("Decode")
  ELSE Ok([data |-> <<"jpeg80", image.data, height>>,
           width |-> Max(RoundDiv(image.width * height, image.height), 1),
           height |-> Max(RoundDiv(image.height * height, image.height), 1)])

\* A policy that lets an image one row above the limit through.
LoadPolicy_OneAbove(e, image, max_height) ==
  IF max_height > 0 /\ image.height > max_height + 1
  THEN resize_image(e, image, max_height)
  ELSE Ok(image)

\* a < b for two u32.  TLC's integers end at 2^31 - 1: a u32 from 2^31 on is
\* written as the negative i32 that has its 32 bits, and is larger than every
\* u32 written as itself.
lt_u32(a, b) == IF (a < 0) = (b < 0) THEN a < b ELSE b < 0

\* load_image after container.get_image(entry)? has returned image: the
\* resize policy for the height limit max_height, a u32.
LoadPolicy(e, image, max_height) ==
  IF max_height # 0 /\ lt_u32(max_height, image.height)
  THEN resize_image(e, image, max_height)
  ELSE Ok(image)

load_image(e) ==
  LET r == ContainerGetImage(e) IN
  IF ~r.ok THEN r
  ELSE LoadPolicy(e, r.image, max_image_height)

\* <dyn Container>::THUMBNAIL_SIZE
THUMBNAIL_SIZE == 300

\* Container::get_thumbnail: read and decode the entry, image.thumbnail(300,
\* 300) (fit into the square, keep the aspect ratio), encode as JPEG quality 10.
ContainerGetThumbnail(e) ==
  IF e \notin EntrySet THEN Err("EntryNotFound")
  ELSE IF kind[e] = "io" THEN Err("Io")
  ELSE IF kind[e] = "corrupt" THEN Err("Decode")
  ELSE LET s == SrcImage(e) IN
       Ok([data |-> <<"jpeg10", s.data>>,
           width |-> IF s.width >= s.height THEN THUMBNAIL_SIZE
                     ELSE Max(RoundDiv(s.width * THUMBNAIL_SIZE, s.height), 1),
           height |-> IF s.width >= s.height
                      THEN Max(RoundDiv(s.height * THUMBNAIL_SIZE, s.width), 1)
                      ELSE THUMBNAIL_SIZE])

Insert(c, e, img) == [k \in DOMAIN c \cup {e} |-> IF k = e THEN img ELSE c[k]]

(* -------------------------------- Init -------------------------------- *)
Idle == [pc |-> "idle"]

NoRet == [op |-> "none"]

NoProbe == [fn |-> "none"]

None == [some |-> FALSE]

\* ContainerSettings::default().pdf_rendering_height
DEFAULT_PDF_RENDERING_HEIGHT == 2000

\* ContainerSettings::default(), without the fields no command of the
\* container layer reads (enable_preview) or writes (pdfium_library_path).
\* No format container has been constructed.
NoContainer == [variant |-> "none"]

DefaultSettings ==
  [max_image_height |-> 0,
   image_resize_method |-> "Triangle",
   pdf_rendering_height |-> DEFAULT_PDF_RENDERING_HEIGHT]

Init ==
  /\ kind \in [EntrySet -> Kinds]
  /\ max_image_height \in MaxHeights
  /\ phase = "none"
  /\ thread_pool = 0
  /\ cache = << >>
  /\ tokens = << >>
  /\ is_preloading_cancel_requested = 0
  /\ queue = << >>
  /\ active = {}
  /\ caller = Idle
  /\ ret = NoRet
  /\ ops = 0
  /\ preload_log = ""
  /\ probe = NoProbe
  /\ container_state = [container |-> None, image_loader |-> None]
  /\ settings = DefaultSettings
  /\ format_container = NoContainer

(* ------------------------------ ImageLoader --------------------------- *)
PoolThreads(n) == Min(1, n \div 2)

\* ImageLoader::new on a machine with num_cpus cores; ThreadPool::new panics
\* on zero threads.
New(num_cpus) ==
  /\ phase = "none"
  /\ LET n == PoolThreads(num_cpus) IN
       IF n < 1
       THEN /\ phase' = "panicked"
            /\ UNCHANGED <<thread_pool, tokens, is_preloading_cancel_requested>>
       ELSE /\ phase' = "alive"
            /\ thread_pool' = n
            /\ tokens' = <<FALSE>>
            /\ is_preloading_cancel_requested' = 1
  /\ UNCHANGED <<env, ops, cache, queue, active, caller, ret, preload_log>>

\* The calling thread is free to enter a loader operation.
CanCall == phase = "alive" /\ caller.pc = "idle" /\ ops < MaxOps

get_image_from_cache(e) ==
  IF e \in DOMAIN cache THEN [some |-> TRUE, image |-> cache[e]]
  ELSE [some |-> FALSE]

\* A lookup that falls back to the container when the entry is not cached.
GetImageFromCache_LoadOnMiss(e) ==
  /\ CanCall
  /\ LET r == load_image(e) IN
       IF e \in DOMAIN cache \/ ~r.ok
       THEN /\ ret' = [op |-> "get_image_from_cache", entry |-> e,
                       res |-> get_image_from_cache(e)]
            /\ cache' = cache
       ELSE /\ ret' = [op |-> "get_image_from_cache", entry |-> e,
                       res |-> [some |-> TRUE, image |-> r.image]]
            /\ cache' = Insert(cache, e, r.image)
  /\ ops' = ops + 1
  /\ UNCHANGED <<env, phase, thread_pool, tokens,
                 is_preloading_cancel_requested, queue, active, caller, preload_log>>

GetImageFromCache(e) ==
  /\ CanCall
  /\ ret' = [op |-> "get_image_from_cache", entry |-> e,
             res |-> get_image_from_cache(e)]
  /\ ops' = ops + 1
  /\ UNCHANGED <<env, phase, thread_pool, cache, tokens,
                 is_preloading_cancel_requested, queue, active, caller, preload_log>>

\* ImageLoader::get_preview_image: Ok(None) when the full image is cached,
\* otherwise the container's thumbnail (or its error).
get_preview_image(e) ==
  IF get_image_from_cache(e).some THEN [ok |-> TRUE, some |-> FALSE]
  ELSE LET thumbnail == ContainerGetThumbnail(e) IN
       IF thumbnail.ok THEN [ok |-> TRUE, some |-> TRUE, image |-> thumbnail.image]
       ELSE thumbnail

\* The body of a command's response: width, height, then the image data.
Response(image) == <<image.width, image.height, image.data>>

\* The get_image_preview command's answer for a result of get_preview_image.
get_image_preview(r) ==
  IF ~r.ok THEN r
  ELSE IF ~r.some THEN [ok |-> TRUE, body |-> << >>]
  ELSE [ok |-> TRUE, body |-> Response(r.image)]

\* A preview that keeps the thumbnail in the cache.
GetPreviewImage_Insert(e) ==
  /\ CanCall
  /\ LET r == get_preview_image(e) IN
       /\ ret' = [op |-> "get_preview_image", entry |-> e,
                  invoked |-> ~get_image_from_cache(e).some,
                  res |-> r, response |-> get_image_preview(r)]
       /\ cache' = IF r.ok /\ r.some THEN Insert(cache, e, r.image) ELSE cache
  /\ ops' = ops + 1
  /\ UNCHANGED <<env, phase, thread_pool, tokens,
                 is_preloading_cancel_requested, queue, active, caller, preload_log>>

\* The get_image_preview command: get_preview_image under the AppState lock,
\* then the response.
GetPreviewImage(e) ==
  /\ CanCall
  /\ LET r == get_preview_image(e) IN
       ret' = [op |-> "get_preview_image", entry |-> e,
               invoked |-> ~get_image_from_cache(e).some,
               res |-> r, response |-> get_image_preview(r)]
  /\ ops' = ops + 1
  /\ UNCHANGED <<env, phase, thread_pool, cache, tokens,
                 is_preloading_cancel_requested, queue, active, caller, preload_log>>

\* get_image that goes to load_image without looking at the cache.
GetImage_AlwaysLoad(e) ==
  /\ CanCall
  /\ caller' = [pc |-> "gi_load", entry |-> e]
  /\ ops' = ops + 1
  /\ UNCHANGED <<env, phase, thread_pool, cache, tokens,
                 is_preloading_cancel_requested, queue, active, ret, preload_log>>

\* get_image up to the cache lookup: a hit returns the cached image, a miss
\* leaves the calling thread in front of load_image.
GetImage(e) ==
  /\ CanCall
  /\ LET c == get_image_from_cache(e) IN
       IF c.some
       THEN /\ ret' = [op |-> "get_image", entry |-> e, invoked |-> FALSE,
                       res |-> Ok(c.image)]
            /\ caller' = caller
       ELSE /\ caller' = [pc |-> "gi_load", entry |-> e]
            /\ ret' = ret
  /\ ops' = ops + 1
  /\ UNCHANGED <<env, phase, thread_pool, cache, tokens,
                 is_preloading_cancel_requested, queue, active, preload_log>>

\* get_image that returns the loaded image without inserting it.
GetImageLoad_NoInsert ==
  /\ caller.pc = "gi_load"
  /\ ret' = [op |-> "get_image", entry |-> caller.entry, invoked |-> TRUE,
             res |-> load_image(caller.entry)]
  /\ caller' = Idle
  /\ UNCHANGED <<env, ops, phase, thread_pool, cache, tokens,
                 is_preloading_cancel_requested, queue, active, preload_log>>

\* get_image that gives up the running preload when its own load fails.
GetImageLoad_CancelOnError ==
  /\ caller.pc = "gi_load"
  /\ LET r == load_image(caller.entry) IN
       /\ cache' = IF r.ok THEN Insert(cache, caller.entry, r.image) ELSE cache
       /\ tokens' = IF r.ok THEN tokens
                    ELSE [tokens EXCEPT ![is_preloading_cancel_requested] = TRUE]
       /\ ret' = [op |-> "get_image", entry |-> caller.entry, invoked |-> TRUE,
                  res |-> r]
  /\ caller' = Idle
  /\ UNCHANGED <<env, ops, phase, thread_pool,
                 is_preloading_cancel_requested, queue, active, preload_log>>

\* get_image after a miss: load_image(...)? ; cache.insert ; Ok(image_arc)
GetImageLoad ==
  /\ caller.pc = "gi_load"
  /\ LET r == load_image(caller.entry) IN
       /\ cache' = IF r.ok THEN Insert(cache, caller.entry, r.image) ELSE cache
       /\ ret' = [op |-> "get_image", entry |-> caller.entry, invoked |-> TRUE,
                  res |-> r]
  /\ caller' = Idle
  /\ UNCHANGED <<env, ops, phase, thread_pool, tokens,
                 is_preloading_cancel_requested, queue, active, preload_log>>

(* --------------------------- request_preload -------------------------- *)
\* end = (begin_index + count).min(total_pages)
PreloadEnd(begin_index, count) == Min(begin_index + count, Len(entries))

\* The slice taken one short: entries[begin_index..end - 1].
NewTasks_SkipLast(begin_index, end, tok) ==
  LET entries_to_preload ==
        SelectSeq(SubSeq(entries, begin_index + 1, end - 1),
                  LAMBDA e : e \notin DOMAIN cache)
  IN [i \in 1..Len(entries_to_preload) |->
        [entry |-> entries_to_preload[i], token |-> tok]]

\* The slice with a closure for every entry, cached or not.
NewTasks_IncludeCached(begin_index, end, tok) ==
  LET entries_to_preload == SubSeq(entries, begin_index + 1, end)
  IN [i \in 1..Len(entries_to_preload) |->
        [entry |-> entries_to_preload[i], token |-> tok]]

\* entries[begin_index..end] without the entries that are cached at the call,
\* one closure each, all capturing the token tok.
NewTasks(begin_index, end, tok) ==
  LET entries_to_preload ==
        SelectSeq(SubSeq(entries, begin_index + 1, end),
                  LAMBDA e : e \notin DOMAIN cache)
  IN [i \in 1..Len(entries_to_preload) |->
        [entry |-> entries_to_preload[i], token |-> tok]]

\* request_preload that installs the fresh token first and cancels afterwards.
RequestPreload_CancelAfterInstall(begin_index, count) ==
  /\ CanCall
  /\ LET end == PreloadEnd(begin_index, count) IN
       IF begin_index >= end
       THEN UNCHANGED <<tokens, is_preloading_cancel_requested, queue>>
       ELSE /\ tokens' = Append(tokens, TRUE)
            /\ is_preloading_cancel_requested' = Len(tokens) + 1
            /\ queue' = queue \o NewTasks(begin_index, end, Len(tokens) + 1)
  /\ ret' = [op |-> "request_preload", begin_index |-> begin_index,
             count |-> count, res |-> "Ok"]
  /\ ops' = ops + 1
  /\ UNCHANGED <<env, phase, thread_pool, cache, active, caller, preload_log>>

\* request_preload that clears the one shared flag instead of allocating a
\* token for the new generation.
RequestPreload_ResetToken(begin_index, count) ==
  /\ CanCall
  /\ LET end == PreloadEnd(begin_index, count) IN
       IF begin_index >= end
       THEN UNCHANGED <<tokens, queue>>
       ELSE /\ tokens' = [tokens EXCEPT ![is_preloading_cancel_requested] = FALSE]
            /\ queue' = queue \o NewTasks(begin_index, end,
                                          is_preloading_cancel_requested)
  /\ ret' = [op |-> "request_preload", begin_index |-> begin_index,
             count |-> count, res |-> "Ok"]
  /\ ops' = ops + 1
  /\ UNCHANGED <<env, phase, thread_pool, cache, active, caller, preload_log,
                 is_preloading_cancel_requested>>

\* request_preload that returns early only when begin_index is past end.
RequestPreload_StrictEmpty(begin_index, count) ==
  /\ CanCall
  /\ LET end == PreloadEnd(begin_index, count) IN
       IF begin_index > end
       THEN UNCHANGED <<tokens, is_preloading_cancel_requested, queue>>
       ELSE /\ tokens' = Append([tokens EXCEPT ![is_preloading_cancel_requested] = TRUE],
                                FALSE)
            /\ is_preloading_cancel_requested' = Len(tokens) + 1
            /\ queue' = queue \o NewTasks(begin_index, end, Len(tokens) + 1)
  /\ ret' = [op |-> "request_preload", begin_index |-> begin_index,
             count |-> count, res |-> "Ok"]
  /\ ops' = ops + 1
  /\ UNCHANGED <<env, phase, thread_pool, cache, active, caller, preload_log>>

RequestPreload(begin_index, count) ==
  /\ CanCall
  /\ LET end == PreloadEnd(begin_index, count) IN
       IF begin_index >= end
       THEN UNCHANGED <<tokens, is_preloading_cancel_requested, queue>>
       ELSE /\ tokens' = Append([tokens EXCEPT ![is_preloading_cancel_requested] = TRUE],
                                FALSE)
            /\ is_preloading_cancel_requested' = Len(tokens) + 1
            /\ queue' = queue \o NewTasks(begin_index, end, Len(tokens) + 1)
  /\ ret' = [op |-> "request_preload", begin_index |-> begin_index,
             count |-> count, res |-> "Ok"]
  /\ ops' = ops + 1
  /\ UNCHANGED <<env, phase, thread_pool, cache, active, caller, preload_log>>

\* A cancel that also throws away the closures waiting in the pool.
CancelPreload_ClearQueue ==
  /\ CanCall
  /\ tokens' = [tokens EXCEPT ![is_preloading_cancel_requested] = TRUE]
  /\ queue' = << >>
  /\ ret' = [op |-> "cancel_preload"]
  /\ ops' = ops + 1
  /\ UNCHANGED <<env, phase, thread_pool, cache, is_preloading_cancel_requested,
                 active, caller, preload_log>>

\* cancel_preload: is_preloading_cancel_requested.store(true)
CancelPreload ==
  /\ CanCall
  /\ tokens' = [tokens EXCEPT ![is_preloading_cancel_requested] = TRUE]
  /\ ret' = [op |-> "cancel_preload"]
  /\ ops' = ops + 1
  /\ UNCHANGED <<env, phase, thread_pool, cache, is_preloading_cancel_requested,
                 queue, active, caller, preload_log>>

(* --------------------------- the pool's workers ------------------------ *)
\* A closure that never looks at its token.
TaskStart_IgnoreToken ==
  /\ queue # << >>
  /\ Cardinality(active) < thread_pool
  /\ queue' = Tail(queue)
  /\ active' = active \cup {Head(queue)}
  /\ UNCHANGED <<env, ops, phase, thread_pool, cache, tokens,
                 is_preloading_cancel_requested, caller, ret, preload_log>>

\* A free worker takes the closure at the head of the pool's channel and runs
\* its first statement, the load of the captured token; a closure that finds
\* its token set returns at once.
TaskStart ==
  /\ queue # << >>
  /\ Cardinality(active) < thread_pool
  /\ queue' = Tail(queue)
  /\ active' = IF tokens[Head(queue).token]
               THEN active
               ELSE active \cup {Head(queue)}
  /\ UNCHANGED <<env, ops, phase, thread_pool, cache, tokens,
                 is_preloading_cancel_requested, caller, ret, preload_log>>

\* A closure that looks at its token again after the load and drops the image
\* when it has been cancelled meanwhile.
TaskLoad_Recheck(t) ==
  /\ t \in active
  /\ LET r == load_image(t.entry) IN
       IF tokens[t.token]
       THEN UNCHANGED <<cache, preload_log>>
       ELSE /\ cache' = IF r.ok THEN Insert(cache, t.entry, r.image) ELSE cache
            /\ preload_log' = IF r.ok THEN "Preloaded" ELSE "Failed to preload image"
  /\ active' = active \ {t}
  /\ UNCHANGED <<env, ops, phase, thread_pool, tokens, queue,
                 is_preloading_cancel_requested, caller, ret>>

\* A closure whose failure discards the closures still waiting in the pool.
TaskLoad_AbortOnError(t) ==
  /\ t \in active
  /\ LET r == load_image(t.entry) IN
       /\ cache' = IF r.ok THEN Insert(cache, t.entry, r.image) ELSE cache
       /\ preload_log' = IF r.ok THEN "Preloaded" ELSE "Failed to preload image"
       /\ queue' = IF r.ok THEN queue ELSE << >>
  /\ active' = active \ {t}
  /\ UNCHANGED <<env, ops, phase, thread_pool, tokens,
                 is_preloading_cancel_requested, caller, ret>>

\* A closure whose insert evicts what the cache held (a cache of one image).
TaskLoad_EvictOthers(t) ==
  /\ t \in active
  /\ LET r == load_image(t.entry) IN
       /\ cache' = IF r.ok THEN Insert(<< >>, t.entry, r.image) ELSE cache
       /\ preload_log' = IF r.ok THEN "Preloaded" ELSE "Failed to preload image"
  /\ active' = active \ {t}
  /\ UNCHANGED <<env, ops, phase, thread_pool, tokens, queue,
                 is_preloading_cancel_requested, caller, ret>>

\* A closure that caches the container's image as it is, without the resize
\* policy of get_image.
TaskLoad_Unresized(t) ==
  /\ t \in active
  /\ LET r == ContainerGetImage(t.entry) IN
       /\ cache' = IF r.ok THEN Insert(cache, t.entry, r.image) ELSE cache
       /\ preload_log' = IF r.ok THEN "Preloaded" ELSE "Failed to preload image"
  /\ active' = active \ {t}
  /\ UNCHANGED <<env, ops, phase, thread_pool, tokens, queue,
                 is_preloading_cancel_requested, caller, ret>>

\* A closure that needs the calling thread out of the loader (the AppState
\* lock free) before it loads.
TaskLoad_WaitsForCaller(t) ==
  /\ t \in active
  /\ caller.pc = "idle"
  /\ LET r == load_image(t.entry) IN
       /\ cache' = IF r.ok THEN Insert(cache, t.entry, r.image) ELSE cache
       /\ preload_log' = IF r.ok THEN "Preloaded" ELSE "Failed to preload image"
  /\ active' = active \ {t}
  /\ UNCHANGED <<env, ops, phase, thread_pool, tokens, queue,
                 is_preloading_cancel_requested, caller, ret>>

\* The rest of the closure: load_image(&entry, ...) and, when it succeeds,
\* cache_clone.insert(entry, image); an error is logged and dropped.
TaskLoad(t) ==
  /\ t \in active
  /\ LET r == load_image(t.entry) IN
       /\ cache' = IF r.ok THEN Insert(cache, t.entry, r.image) ELSE cache
       /\ preload_log' = IF r.ok THEN "Preloaded" ELSE "Failed to preload image"
  /\ active' = active \ {t}
  /\ UNCHANGED <<env, ops, phase, thread_pool, tokens, queue,
                 is_preloading_cancel_requested, caller, ret>>

(* -------------------------------- Drop --------------------------------- *)
\* drop: self.cancel_preload()
DropCancel ==
  /\ CanCall
  /\ tokens' = [tokens EXCEPT ![is_preloading_cancel_requested] = TRUE]
  /\ caller' = [pc |-> "drop_join"]
  /\ ops' = ops + 1
  /\ UNCHANGED <<env, phase, thread_pool, cache, is_preloading_cancel_requested,
                 queue, active, ret, preload_log>>

\* drop that does not wait for the pool.
DropJoin_NoWait ==
  /\ caller.pc = "drop_join"
  /\ phase' = "dropped"
  /\ caller' = Idle
  /\ ret' = [op |-> "drop"]
  /\ UNCHANGED <<env, ops, thread_pool, cache, tokens, is_preloading_cancel_requested,
                 queue, active, preload_log>>

\* drop: self.thread_pool.join() returns once no job is queued or active; the
\* fields are released after it.
DropJoin ==
  /\ caller.pc = "drop_join"
  /\ queue = << >>
  /\ active = {}
  /\ phase' = "dropped"
  /\ caller' = Idle
  /\ ret' = [op |-> "drop"]
  /\ UNCHANGED <<env, ops, thread_pool, cache, tokens, is_preloading_cancel_requested,
                 queue, active, preload_log>>

Worker == TaskStart \/ \E t \in active : TaskLoad(t)

CallerStep == GetImageLoad \/ DropJoin

Next ==
  \/ \E n \in 1..MaxCpus : New(n)
  \/ \E e \in Names : GetImageFromCache(e)
  \/ \E e \in Names : GetImage(e)
  \/ \E e \in Names : GetPreviewImage(e)
  \/ GetImageLoad
  \/ \E b \in 0..NumEntries, c \in 0..NumEntries : RequestPreload(b, c)
  \/ CancelPreload
  \/ TaskStart
  \/ \E t \in active : TaskLoad(t)
  \/ DropCancel
  \/ DropJoin

Spec == Init /\ [][Next]_vars

\* The operating system schedules every pool thread and the calling thread,
\* and every single load terminates.
FairSpec == Spec /\ WF_vars(Worker) /\ WF_vars(CallerStep)

(* ------------------------- the container variants ---------------------- *)
\* The loader's own variables and the format container, which the functions
\* and commands below leave alone.
loader == <<kind, max_image_height, phase, thread_pool, cache, tokens,
            is_preloading_cancel_requested, queue, active, caller, ret,
            preload_log, ops, format_container>>

\* The same without what a command changes when it waits or panics.
untouched == <<kind, max_image_height, cache, tokens,
               is_preloading_cancel_requested, queue, active, ret, preload_log,
               ops, format_container>>

Variants == {"Directory", "Zip", "Rar", "Pdf", "Epub"}

\* An identifier handed to a container's get_image, for a container that
\* lists n entries, the entries being numbered from 0: the name the container
\* lists for index `index` ("entry"; for a PDF the page index padded to four
\* digits), another decimal spelling of that index ("alias", such as "1" for
\* "0001"), the listed name behind a redundant path prefix ("path", such as
\* "./1.png" for "1.png"), or a name that is not a number ("text").
NameForms == {"entry", "alias", "path", "text"}

ProbeNames == [index : 0..NumEntries, form : NameForms]

EntryNames(n) == {[index |-> i, form |-> "entry"] : i \in 0..(n - 1)}

\* directory_container.rs load_image: File::open(path.join(entry))? opens the
\* file the joined path leads to, whether or not the name is spelt as the
\* entry list spells it, and fails with the io::Error of a missing file.
DirectoryGetImage(n, name) ==
  IF name.form \in {"entry", "path"} /\ name.index < n
  THEN Ok(SrcImage(name.index + 1))
  ELSE Err("Io")

\* zip_container.rs load_image: archive.by_name(entry) fails and is wrapped
\* in a ContainerError with the message "Failed to get entry. ...".
ZipGetImage(n, name) ==
  IF name \in EntryNames(n) THEN Ok(SrcImage(name.index + 1))
  ELSE Err("ContainerError: Failed to get entry")

\* rar_container.rs get_image: no header matches, so after the last header
\* a ContainerError with the message "Entry not found: ..." is returned.
RarGetImage(n, name) ==
  IF name \in EntryNames(n) THEN Ok(SrcImage(name.index + 1))
  ELSE Err("ContainerError: Entry not found")

\* pdf_container.rs load_image: the identifier is parsed as a u16 and the
\* page of that index is rendered, whatever the spelling of the number.
PdfGetImage(n, name) ==
  IF name.form \in {"text", "path"}
  THEN Err("ContainerError: Failed to convet to index")
  ELSE IF name.index >= n THEN Err("ContainerError: Failed to get the pdf page")
  ELSE Ok(SrcImage(name.index + 1))

\* epub_container.rs load_image: no manifest image has the key.
EpubGetImage(n, name) ==
  IF name \in EntryNames(n) THEN Ok(SrcImage(name.index + 1))
  ELSE Err("EntryNotFound")

VariantGetImage(variant, n, name) ==
  CASE variant = "Directory" -> DirectoryGetImage(n, name)
    [] variant = "Zip" -> ZipGetImage(n, name)
    [] variant = "Rar" -> RarGetImage(n, name)
    [] variant = "Pdf" -> PdfGetImage(n, name)
    [] variant = "Epub" -> EpubGetImage(n, name)

\* get_image(name) on a freshly opened container of the variant with n entries.
ProbeGetImage(variant, n, name) ==
  /\ probe' = [fn |-> "get_image", variant |-> variant, entries |-> n,
                name |-> name, out |-> VariantGetImage(variant, n, name)]
  /\ UNCHANGED <<loader, container_state, settings>>

\* ImageLoader::get_image(name) on a loader whose cache is c, wrapping a
\* container of the variant with n entries: a hit changes nothing; a miss
\* inserts what load_image returns under the name as the caller spelt it.
NamedGetImage(variant, n, c, name) ==
  IF name \in DOMAIN c THEN c
  ELSE LET r == VariantGetImage(variant, n, name) IN
       IF ~r.ok THEN c
       ELSE LET l == LoadPolicy(name.index + 1, r.image, max_image_height) IN
            IF l.ok THEN Insert(c, name, l.image) ELSE c

\* Two get_image calls, first and then second, on a fresh ImageLoader.
ProbeLoaderGetImage(variant, n, first, second) ==
  /\ probe' = [fn |-> "ImageLoader::get_image", variant |-> variant,
                entries |-> n, first |-> first, second |-> second,
                cache |-> NamedGetImage(variant, n,
                                        NamedGetImage(variant, n, << >>, first),
                                        second)]
  /\ UNCHANGED <<loader, container_state, settings>>

\* usize, at a width of WordBits bits.
WordSize == 2 ^ WordBits

Words == 0..(WordSize - 1)

\* begin_index + count on usize: a build with overflow checks (the dev
\* profile) panics when the sum leaves the word, a build without them (the
\* release profile) keeps the sum modulo the word size.
UsizeAdd(a, b, overflow_checks) ==
  IF a + b < WordSize THEN [panic |-> FALSE, value |-> a + b]
  ELSE IF overflow_checks THEN [panic |-> TRUE]
  ELSE [panic |-> FALSE, value |-> (a + b) % WordSize]

\* request_preload up to its range test, on a container of total_pages
\* entries: end = (begin_index + count).min(total_pages), and the number of
\* entries of entries[begin_index..end] the call goes on to look at.
ProbeRequestPreload(begin_index, count, total_pages, overflow_checks) ==
  /\ LET sum == UsizeAdd(begin_index, count, overflow_checks) IN
       probe' = [fn |-> "request_preload", begin_index |-> begin_index,
                 count |-> count, total_pages |-> total_pages,
                 overflow_checks |-> overflow_checks,
                 out |-> IF sum.panic THEN sum
                         ELSE LET end == Min(sum.value, total_pages) IN
                              [panic |-> FALSE, end |-> end,
                               range |-> IF begin_index >= end THEN 0
                                         ELSE end - begin_index]]
  /\ UNCHANGED <<loader, container_state, settings>>

\* The thread count ImageLoader::new asks of ThreadPool::new on a machine with
\* num_cpus cores; ThreadPool::new panics when it is 0.
ProbePoolThreads(num_cpus) ==
  /\ probe' = [fn |-> "PoolThreads", num_cpus |-> num_cpus,
                out |-> PoolThreads(num_cpus), panics |-> PoolThreads(num_cpus) < 1]
  /\ UNCHANGED <<loader, container_state, settings>>

\* load_image for an entry whose file is a width x height picture, under the
\* height limit max_height.
ProbeLoadImage(e, width, height, max_height) ==
  /\ LET image == [data |-> <<"src", e>>, width |-> width, height |-> height] IN
       probe' = [fn |-> "load_image", entry |-> e, image |-> image,
                 max_height |-> max_height, out |-> LoadPolicy(e, image, max_height)]
  /\ UNCHANGED <<loader, container_state, settings>>

\* u32::to_be_bytes written the other way round (least significant byte first).
to_be_bytes_LittleEndian(n) ==
  <<n % 256, (n \div 256) % 256, (n \div 65536) % 256, (n \div 16777216) % 256>>

\* u32::to_be_bytes: the four bytes of n, most significant first.
to_be_bytes(n) ==
  <<(n \div 16777216) % 256, (n \div 65536) % 256, (n \div 256) % 256, n % 256>>

\* u32::from_be_bytes
from_be_bytes(b) == ((b[1] * 256 + b[2]) * 256 + b[3]) * 256 + b[4]

\* The body get_image builds: response_data.extend_from_slice of the
\* width's bytes, the height's bytes and the image data.
ResponseData(image) ==
  to_be_bytes(image.width) \o to_be_bytes(image.height) \o image.data

\* What a receiver reads from a body: two big-endian u32, then the rest.
ReadResponse(body) ==
  [width |-> from_be_bytes(SubSeq(body, 1, 4)),
   height |-> from_be_bytes(SubSeq(body, 5, 8)),
   data |-> SubSeq(body, 9, Len(body))]

\* Widths and heights around every byte boundary of a u32, up to the largest
\* integer TLC represents (2^31 - 1).
U32Samples == {0, 1, 255, 256, 65535, 65536, 16777215, 16777216, 2147483647}

Bytes == {0, 255}

ByteSeqs == UNION {[1..n -> Bytes] : n \in 0..MaxDim}

\* The get_image command's body for the image the loader returned.
ProbeResponse(width, height, data) ==
  /\ LET image == [data |-> data, width |-> width, height |-> height] IN
       probe' = [fn |-> "response", image |-> image, out |-> ResponseData(image)]
  /\ UNCHANGED <<loader, container_state, settings>>

\* A file name is the sequence of its characters.
UpperCase ==
  <<"A", "B", "C", "D", "E", "F", "G", "H", "I", "J", "K", "L", "M",
    "N", "O", "P", "Q", "R", "S", "T", "U", "V", "W", "X", "Y", "Z">>

LowerCase ==
  <<"a", "b", "c", "d", "e", "f", "g", "h", "i", "j", "k", "l", "m",
    "n", "o", "p", "q", "r", "s", "t", "u", "v", "w", "x", "y", "z">>

\* str::to_lowercase on the characters used here: the ASCII capitals map to
\* their small letters, everything else stays.
to_lowercase(s) ==
  [i \in 1..Len(s) |->
     IF \E k \in 1..Len(UpperCase) : UpperCase[k] = s[i]
     THEN LowerCase[CHOOSE k \in 1..Len(UpperCase) : UpperCase[k] = s[i]]
     ELSE s[i]]

\* str::ends_with
ends_with(s, suffix) ==
  /\ Len(s) >= Len(suffix)
  /\ SubSeq(s, Len(s) - Len(suffix) + 1, Len(s)) = suffix

\* <dyn Container>::is_supported_format of container/traits.rs
is_supported_format(filename) ==
  LET lowercase_name == to_lowercase(filename) IN
  \/ ends_with(lowercase_name, <<".", "p", "d", "f">>)
  \/ ends_with(lowercase_name, <<".", "r", "a", "r">>)
  \/ ends_with(lowercase_name, <<".", "z", "i", "p">>)
  \/ ends_with(lowercase_name, <<".", "e", "p", "u", "b">>)

\* <dyn Container>::is_supported_format of container/container.rs, the one
\* the directory listing (commands/directory_commands.rs) imports.
container_is_supported_format(filename) ==
  LET lowercase_name == to_lowercase(filename) IN
  \/ ends_with(lowercase_name, <<".", "p", "d", "f">>)
  \/ ends_with(lowercase_name, <<".", "r", "a", "r">>)
  \/ ends_with(lowercase_name, <<".", "z", "i", "p">>)

\* File names: the stems "", "x" and "a.pdf", followed by nothing or by one
\* of the extensions in one of its spellings, with or without the dot, and
\* optionally by a tail after the extension.
Stems == {<< >>, <<"x">>, <<"a", ".", "p", "d", "f">>}

Extensions ==
  {<< >>,
   <<"p", "d", "f">>, <<"P", "D", "F">>, <<"P", "d", "f">>,
   <<"r", "a", "r">>, <<"R", "A", "R">>,
   <<"z", "i", "p">>, <<"Z", "I", "P">>,
   <<"e", "p", "u", "b">>, <<"E", "P", "U", "B">>, <<"e", "P", "u", "b">>,
   <<"t", "x", "t">>, <<"p", "n", "g">>}

Tails == {<< >>, <<"_", "t">>, <<".", "t">>}

Filenames ==
  {stem \o dot \o ext \o tail :
     stem \in Stems, dot \in {<< >>, <<".">>}, ext \in Extensions, tail \in Tails}

IsSupportedFormatVersions == {"traits.rs", "container.rs"}

ProbeIsSupportedFormat(version, filename) ==
  /\ probe' = [fn |-> "is_supported_format", version |-> version,
                filename |-> filename,
                out |-> IF version = "traits.rs"
                        THEN is_supported_format(filename)
                        ELSE container_is_supported_format(filename)]
  /\ UNCHANGED <<loader, container_state, settings>>

(* The entry list of a container: filter, then natural sort. *)
\* Image::is_supported_format
image_is_supported_format(filename) ==
  LET lowercase_name == to_lowercase(filename) IN
  \/ ends_with(lowercase_name, <<".", "a", "p", "n", "g">>)
  \/ ends_with(lowercase_name, <<".", "g", "i", "f">>)
  \/ ends_with(lowercase_name, <<".", "j", "p", "g">>)
  \/ ends_with(lowercase_name, <<".", "j", "p", "e", "g">>)
  \/ ends_with(lowercase_name, <<".", "j", "p", "e">>)
  \/ ends_with(lowercase_name, <<".", "j", "i", "f">>)
  \/ ends_with(lowercase_name, <<".", "j", "f", "i", "f">>)
  \/ ends_with(lowercase_name, <<".", "p", "n", "g">>)
  \/ ends_with(lowercase_name, <<".", "s", "v", "g">>)
  \/ ends_with(lowercase_name, <<".", "w", "e", "b", "p">>)

Digits == <<"0", "1", "2", "3", "4", "5", "6", "7", "8", "9">>

\* char::to_digit(10), with -1 for None.
to_digit(c) ==
  IF \E k \in 1..Len(Digits) : Digits[k] = c
  THEN (CHOOSE k \in 1..Len(Digits) : Digits[k] = c) - 1
  ELSE -1

\* The characters of the names, in the order of their code points.
CodeOrder == <<" ", ".", "/">> \o Digits \o <<"_">> \o LowerCase

CodePoint(c) == CHOOSE k \in 1..Len(CodeOrder) : CodeOrder[k] = c

\* Ord::cmp as -1 (Less), 0 (Equal), 1 (Greater).
Cmp(x, y) == IF x < y THEN -1 ELSE IF x > y THEN 1 ELSE 0

DigitAt(s, i) == IF i <= Len(s) THEN to_digit(s[i]) ELSE -1

RECURSIVE SkipWhitespace(_, _)
SkipWhitespace(s, i) ==
  IF i <= Len(s) /\ s[i] = " " THEN SkipWhitespace(s, i + 1) ELSE i

\* natord::compare_iter on the character sequences a and b, the next
\* characters being a[i] and b[j]: whitespace is skipped; two digit runs are
\* compared left-aligned (digit by digit, as fractions) when either starts
\* with 0 and right-aligned (the longer run is the larger, equal lengths by
\* the first differing digit) otherwise; other characters are compared by
\* code point.
RECURSIVE natord_nondigits(_, _, _, _)
RECURSIVE natord_digits_left(_, _, _, _)
RECURSIVE natord_digits_right(_, _, _, _, _)
natord_nondigits(a, b, i0, j0) ==
  LET i == SkipWhitespace(a, i0)
      j == SkipWhitespace(b, j0)
      ll == DigitAt(a, i)
      rr == DigitAt(b, j)
  IN IF i > Len(a) /\ j > Len(b) THEN 0
     ELSE IF j > Len(b) THEN 1
     ELSE IF i > Len(a) THEN -1
     ELSE IF ll >= 0 /\ rr >= 0
     THEN IF ll = 0 \/ rr = 0
          THEN IF ll # rr THEN Cmp(ll, rr)
               ELSE natord_digits_left(a, b, i + 1, j + 1)
          ELSE natord_digits_right(a, b, i + 1, j + 1, Cmp(ll, rr))
     ELSE IF a[i] # b[j] THEN Cmp(CodePoint(a[i]), CodePoint(b[j]))
     ELSE natord_nondigits(a, b, i + 1, j + 1)

natord_digits_left(a, b, i, j) ==
  LET ll == DigitAt(a, i)
      rr == DigitAt(b, j)
  IN IF ll >= 0 /\ rr >= 0
     THEN IF ll # rr THEN Cmp(ll, rr) ELSE natord_digits_left(a, b, i + 1, j + 1)
     ELSE IF ll >= 0 THEN 1
     ELSE IF rr >= 0 THEN -1
     ELSE natord_nondigits(a, b, i, j)

natord_digits_right(a, b, i, j, lastcmp) ==
  LET ll == DigitAt(a, i)
      rr == DigitAt(b, j)
  IN IF ll >= 0 /\ rr >= 0
     THEN natord_digits_right(a, b, i + 1, j + 1,
                              IF lastcmp = 0 THEN Cmp(ll, rr) ELSE lastcmp)
     ELSE IF ll >= 0 THEN 1
     ELSE IF rr >= 0 THEN -1
     ELSE IF lastcmp # 0 THEN lastcmp
     ELSE natord_nondigits(a, b, i, j)

\* natord::compare_ignore_case
compare_ignore_case(left, right) ==
  natord_nondigits(to_lowercase(left), to_lowercase(right), 1, 1)

\* Vec::sort_by(|a, b| natord::compare_ignore_case(a, b)): a stable sort.
RECURSIVE sort_insert(_, _)
sort_insert(sorted, x) ==
  IF sorted = << >> THEN <<x>>
  ELSE IF compare_ignore_case(sorted[Len(sorted)], x) > 0
  THEN Append(sort_insert(SubSeq(sorted, 1, Len(sorted) - 1), x), sorted[Len(sorted)])
  ELSE Append(sorted, x)

RECURSIVE sort_by(_)
sort_by(names) ==
  IF names = << >> THEN << >>
  ELSE sort_insert(sort_by(SubSeq(names, 1, Len(names) - 1)), names[Len(names)])

FileNames(files) == [i \in 1..Len(files) |-> files[i].name]

\* DirectoryContainer::new: read_dir, directories skipped, image names kept.
DirectoryEntries(files) ==
  sort_by(FileNames(SelectSeq(files,
            LAMBDA f : ~f.is_dir /\ image_is_supported_format(f.name))))

\* ZipContainer::new: archive.file_names() filtered by the image suffixes; the
\* name of a directory in a ZIP archive ends with "/".
ZipEntries(files) ==
  sort_by(SelectSeq([i \in 1..Len(files) |->
                       IF files[i].is_dir THEN files[i].name \o <<"/">>
                       ELSE files[i].name],
                    image_is_supported_format))

\* RarContainer::new: the headers with is_file() and an image name.
RarEntries(files) ==
  sort_by(FileNames(SelectSeq(files,
            LAMBDA f : ~f.is_dir /\ image_is_supported_format(f.name))))

\* What a directory or an archive may hold.
FilePool ==
  {[name |-> <<"1", ".", "p", "n", "g">>, is_dir |-> FALSE],
   [name |-> <<"2", ".", "p", "n", "g">>, is_dir |-> FALSE],
   [name |-> <<"1", "0", ".", "p", "n", "g">>, is_dir |-> FALSE],
   [name |-> <<"0", "2", ".", "p", "n", "g">>, is_dir |-> FALSE],
   [name |-> <<"B", ".", "J", "P", "G">>, is_dir |-> FALSE],
   [name |-> <<"a", ".", "t", "x", "t">>, is_dir |-> FALSE],
   [name |-> <<"d", ".", "p", "n", "g">>, is_dir |-> TRUE]}

\* The files in the order the file system or the archive lists them.
Listings ==
  {files \in UNION {[1..n -> FilePool] : n \in 0..MaxFiles} :
     \A i, j \in 1..Len(files) : i # j => files[i] # files[j]}

ProbeEntries(variant, files) ==
  /\ probe' = [fn |-> "get_entries", variant |-> variant, files |-> files,
                out |-> CASE variant = "Directory" -> DirectoryEntries(files)
                          [] variant = "Zip" -> ZipEntries(files)
                          [] variant = "Rar" -> RarEntries(files)]
  /\ UNCHANGED <<loader, container_state, settings>>

(* RarContainer::get_image on a cache miss: the walk over the headers. *)
\* What the headers of a RAR archive may be: a filename (an entry, or 0 for a
\* file that is no entry) and whether the data decodes as an image.
RarHeaders == [filename : Names, decodes : BOOLEAN]

RarArchives == UNION {[1..n -> RarHeaders] : n \in 0..MaxFiles}

\* The walk that goes on reading headers after the match.
RECURSIVE rar_walk_NoBreak(_, _, _, _)
rar_walk_NoBreak(archive, entry, k, visited) ==
  IF k > Len(archive)
  THEN [visited |-> visited,
        res |-> IF \E j \in 1..Len(visited) : visited[j] = "read"
                THEN Ok(SrcImage(entry))
                ELSE Err("ContainerError: Entry not found")]
  ELSE IF archive[k].filename = entry
  THEN IF archive[k].decodes
       THEN rar_walk_NoBreak(archive, entry, k + 1, Append(visited, "read"))
       ELSE [visited |-> Append(visited, "read"), res |-> Err("ContainerError: Image::new")]
  ELSE rar_walk_NoBreak(archive, entry, k + 1, Append(visited, "skip"))

\* The while-let loop of get_image from header k on: a header whose filename
\* equals the entry is read and the loop is left (break on an image, return
\* Err when Image::new fails); any other header is skipped; when
\* read_header returns None the image is still None and the result is the
\* "Entry not found" error.  visited records what was done to each header.
RECURSIVE rar_walk(_, _, _, _)
rar_walk(archive, entry, k, visited) ==
  IF k > Len(archive)
  THEN [visited |-> visited, res |-> Err("ContainerError: Entry not found")]
  ELSE IF archive[k].filename = entry
  THEN [visited |-> Append(visited, "read"),
        res |-> IF archive[k].decodes THEN Ok(SrcImage(entry))
                ELSE Err("ContainerError: Image::new")]
  ELSE rar_walk(archive, entry, k + 1, Append(visited, "skip"))

\* open(&self.path) positions the archive before its first header.
ProbeRarWalk(archive, entry) ==
  /\ probe' = [fn |-> "RarContainer::get_image", archive |-> archive,
                entry |-> entry, out |-> rar_walk(archive, entry, 1, << >>)]
  /\ UNCHANGED <<loader, container_state, settings>>

(* ----------------------------- ContainerState -------------------------- *)
Some(x) == [some |-> TRUE, value |-> x]

\* A path handed to open_container: what it leads to (a directory, a file
\* with one of the four container extensions, a file with another extension,
\* a file without extension), which file it is, whether the constructor
\* called on it succeeds, and whether the lower-cased extension of its name
\* is epub, which a directory's name may have as well as an EPUB file's.
Paths ==
  {path \in [target : Variants \cup {"Unsupported", "NoExtension"},
             file : 1..NumPaths,
             valid : BOOLEAN,
             is_epub : BOOLEAN] :
     /\ path.target = "Epub" => path.is_epub
     /\ path.is_epub => path.target \in {"Epub", "Directory"}}

\* The Result of open_container(path) up to the container's constructor.
OpenResult(path) ==
  IF path.target = "NoExtension" THEN Err("Path")
  ELSE IF path.target = "Unsupported" THEN Err("UnsupportedContainer")
  ELSE IF ~path.valid THEN Err("Constructor")
  ELSE [ok |-> TRUE]

\* What open_container(path) comes to where ImageLoader::new asks for a pool
\* of `threads` threads: ThreadPool::new panics on 0, after the constructor
\* of the container has succeeded.
OpenOutcome(path, threads) ==
  IF OpenResult(path).ok /\ threads < 1 THEN Err("Panic") ELSE OpenResult(path)

\* The thread that held the AppState lock has panicked: the mutex is
\* poisoned and every state.lock() of a command gives Error::Mutex.
Poisoned == phase = "panicked"

\* The container a constructor builds from a path.  A PdfContainer keeps the
\* render configuration it was given; the other variants take no setting.
NewContainer(path) ==
  [variant |-> path.target,
   file |-> path.file,
   render_config |-> IF path.target = "Pdf"
                     THEN Some(settings.pdf_rendering_height)
                     ELSE None]

\* Container::get_entries: file number f holds f - 1 entries, so that the
\* first file is an empty container.
get_entries(container) == [i \in 1..(container.file - 1) |-> i]

is_directory(container) == container.variant = "Directory"

\* h as u32 for an i32 h keeps the 32 bits of h: the u32 is h + 2^32 for a
\* negative h, which is written as h (see lt_u32).
as_u32(h) == h

\* ImageLoader::new(container, settings.max_image_height as u32,
\* settings.image_resize_method) where the pool can be built: an empty cache,
\* one token that is not set, nothing handed to the pool.
NewLoader(container) ==
  [container |-> container,
   max_image_height |-> as_u32(settings.max_image_height),
   resize_method |-> settings.image_resize_method,
   cache |-> << >>,
   tokens |-> <<FALSE>>,
   is_preloading_cancel_requested |-> 1,
   queue |-> << >>,
   active |-> {}]

\* ContainerState::open_container where ImageLoader::new asks for a pool of
\* `threads` threads: the container field is cleared first; self.container
\* is assigned after the constructor has succeeded and self.image_loader
\* after ImageLoader::new has returned; every error return and the panic of
\* ImageLoader::new leave image_loader as it is.
open_container(state, path, threads) ==
  IF ~OpenResult(path).ok THEN [state EXCEPT !.container = None]
  ELSE IF threads < 1 THEN [state EXCEPT !.container = Some(NewContainer(path))]
  ELSE [container |-> Some(NewContainer(path)),
        image_loader |-> Some(NewLoader(NewContainer(path)))]

\* open_container on a machine with num_cpus cores, the same machine as for
\* every pool built before.  Nothing follows a panic of the calling thread.
OpenContainer(path) ==
  /\ ~Poisoned
  /\ \E num_cpus \in 1..MaxCpus :
       LET threads == PoolThreads(num_cpus) IN
       /\ thread_pool \in {0, threads}
       /\ container_state' = open_container(container_state, path, threads)
       /\ probe' = [fn |-> "open_container", path |-> path,
                     before |-> container_state, out |-> OpenOutcome(path, threads)]
       /\ thread_pool' = IF OpenOutcome(path, threads).ok THEN threads ELSE thread_pool
       /\ phase' = IF OpenOutcome(path, threads) = Err("Panic") THEN "panicked" ELSE phase
  /\ UNCHANGED <<untouched, caller, settings>>

\* The loader that is about to be dropped still has closures in its pool.
Pending(state) ==
  /\ state.image_loader.some
  /\ \/ state.image_loader.value.queue # << >>
     \/ state.image_loader.value.active # {}

\* The loader of state with its current token set, as cancel_preload leaves it.
Cancelled(state) ==
  [state.image_loader.value EXCEPT
     !.tokens[state.image_loader.value.is_preloading_cancel_requested] = TRUE]

\* What determine_epub_novel returns once the state is closed: it goes by
\* the extension of the name alone, so that EpubContainer::new is called on
\* a directory named like an EPUB too.
EpubNovel(path) ==
  IF ~path.is_epub THEN [ok |-> TRUE, novel |-> FALSE]
  ELSE IF ~path.valid THEN Err("Constructor")
  ELSE [ok |-> TRUE]

\* The determine_epub_novel command closes whatever is open before it looks
\* at the path.  The assignment image_loader = None drops the open loader:
\* its token is set and, while its pool has closures, the command waits in
\* thread_pool.join() under the AppState lock, the container already None.
DetermineEpubNovel(path) ==
  /\ caller.pc = "idle"
  /\ IF Poisoned
     THEN /\ container_state' = container_state
          /\ probe' = [fn |-> "determine_epub_novel", path |-> path,
                        out |-> Err("Mutex")]
          /\ caller' = caller
     ELSE IF Pending(container_state)
     THEN /\ container_state' = [container |-> None,
                                  image_loader |-> Some(Cancelled(container_state))]
          /\ caller' = [pc |-> "close_join", path |-> path]
          /\ probe' = probe
     ELSE /\ container_state' = [container |-> None, image_loader |-> None]
          /\ probe' = [fn |-> "determine_epub_novel", path |-> path,
                        out |-> EpubNovel(path)]
          /\ caller' = caller
  /\ UNCHANGED <<untouched, phase, thread_pool, settings>>

StateNext ==
  \/ \E path \in Paths : OpenContainer(path)
  \/ \E path \in Paths : DetermineEpubNovel(path)

StateSpec == Init /\ [][StateNext]_vars

(* ---------------------- the dispatch of open_container ----------------- *)
\* Path::extension of a file name: None when the name has no dot, or only a
\* leading one; otherwise what follows the last dot.
extension(filename) ==
  LET dots == {p \in 1..Len(filename) : filename[p] = "."} IN
  IF dots = {} \/ dots = {1} THEN None
  ELSE LET last == CHOOSE p \in dots : \A q \in dots : q <= p
       IN Some(SubSeq(filename, last + 1, Len(filename)))

\* determine_epub_novel's test of the name: the extension, or the empty
\* string when there is none, lower-cased, is "epub".
is_epub(filename) ==
  /\ extension(filename).some
  /\ to_lowercase(extension(filename).value) = <<"e", "p", "u", "b">>

\* The dispatch with the extension matched as it is spelled.
SelectTarget_CaseSensitive(filename, is_dir) ==
  IF is_dir THEN "Directory"
  ELSE IF ~extension(filename).some THEN "NoExtension"
  ELSE LET ext_str == extension(filename).value IN
       CASE ext_str = <<"z", "i", "p">> -> "Zip"
         [] ext_str = <<"p", "d", "f">> -> "Pdf"
         [] ext_str = <<"r", "a", "r">> -> "Rar"
         [] ext_str = <<"e", "p", "u", "b">> -> "Epub"
         [] OTHER -> "Unsupported"

\* What open_container makes of a path: is_dir() first, then the lower-cased
\* extension.
SelectTarget(filename, is_dir) ==
  IF is_dir THEN "Directory"
  ELSE IF ~extension(filename).some THEN "NoExtension"
  ELSE LET ext_str == to_lowercase(extension(filename).value) IN
       CASE ext_str = <<"z", "i", "p">> -> "Zip"
         [] ext_str = <<"p", "d", "f">> -> "Pdf"
         [] ext_str = <<"r", "a", "r">> -> "Rar"
         [] ext_str = <<"e", "p", "u", "b">> -> "Epub"
         [] OTHER -> "Unsupported"

\* open_container on a state with nothing open, for a path given by its file
\* name, by whether it is a directory, and by whether the constructor
\* accepts what is there.
ProbeOpenContainer(filename, is_dir, valid, num_cpus) ==
  LET path == [target |-> SelectTarget(filename, is_dir), file |-> NumPaths,
               valid |-> valid, is_epub |-> is_epub(filename)]
  IN /\ probe' = [fn |-> "open_container(path)", filename |-> filename,
                   is_dir |-> is_dir, valid |-> valid, num_cpus |-> num_cpus,
                   out |-> OpenOutcome(path, PoolThreads(num_cpus)),
                   state |-> open_container([container |-> None, image_loader |-> None],
                                            path, PoolThreads(num_cpus))]
     /\ UNCHANGED <<loader, container_state, settings>>

ProbeNext ==
  \/ /\ probe = NoProbe
     /\ \E f \in Filenames, is_dir \in BOOLEAN, valid \in BOOLEAN,
           n \in 1..MaxCpus :
          ProbeOpenContainer(f, is_dir, valid, n)
  \/ /\ probe = NoProbe
     /\ \E archive \in RarArchives, e \in EntrySet : ProbeRarWalk(archive, e)
  \/ /\ probe = NoProbe
     /\ \E v \in {"Directory", "Zip", "Rar"}, files \in Listings : ProbeEntries(v, files)
  \/ /\ probe = NoProbe
     /\ \E v \in IsSupportedFormatVersions, f \in Filenames : ProbeIsSupportedFormat(v, f)
  \/ /\ probe = NoProbe
     /\ \E w \in U32Samples, h \in U32Samples, d \in ByteSeqs : ProbeResponse(w, h, d)
  \/ /\ probe = NoProbe
     /\ \E v \in Variants, n \in 0..NumEntries, name \in ProbeNames :
          ProbeGetImage(v, n, name)
  \/ /\ probe = NoProbe
     /\ \E v \in Variants, n \in 0..NumEntries, first \in ProbeNames,
           second \in ProbeNames :
          ProbeLoaderGetImage(v, n, first, second)
  \/ /\ probe = NoProbe
     /\ \E b \in Words, c \in Words, n \in 0..NumEntries, oc \in BOOLEAN :
          ProbeRequestPreload(b, c, n, oc)
  \/ /\ probe = NoProbe
     /\ \E n \in 1..MaxCpus : ProbePoolThreads(n)
  \/ /\ probe = NoProbe
     /\ \E e \in EntrySet, w \in 1..MaxDim, h \in 1..MaxDim, m \in 0..MaxDim :
          ProbeLoadImage(e, w, h, m)

\* One application of one function to one input: a function is applied only
\* where none has been applied yet.
ProbeSpec == Init /\ [][ProbeNext]_vars

(* ------------------------------ the commands --------------------------- *)
\* image_loader.request_preload(begin_index, count) on the loader value il:
\* nothing for an empty range; otherwise the current token is set, a fresh
\* one is installed, and one closure per entry of the range that is not
\* cached is handed to the pool.
LoaderRequestPreload(il, begin_index, count) ==
  LET all == get_entries(il.container)
      end == Min(begin_index + count, Len(all))
      entries_to_preload ==
        SelectSeq(SubSeq(all, begin_index + 1, end),
                  LAMBDA e : e \notin DOMAIN il.cache)
      fresh == Len(il.tokens) + 1
  IN IF begin_index >= end THEN il
     ELSE [il EXCEPT
             !.tokens = Append([@ EXCEPT ![il.is_preloading_cancel_requested] = TRUE],
                               FALSE),
             !.is_preloading_cancel_requested = fresh,
             !.queue = @ \o [i \in 1..Len(entries_to_preload) |->
                               [entry |-> entries_to_preload[i], token |-> fresh]]]

\* The part of get_image that follows a miss: load_image, and the insert
\* under a second lock of the cache when the load has succeeded.
LoaderLoad(il, e) ==
  LET n == Len(get_entries(il.container))
      c == VariantGetImage(il.container.variant, n,
                           [index |-> e - 1, form |-> "entry"])
      r == IF ~c.ok THEN c ELSE LoadPolicy(e, c.image, il.max_image_height)
  IN [loader |-> IF r.ok THEN [il EXCEPT !.cache = Insert(@, e, r.image)] ELSE il,
      res |-> r]

\* image_loader.get_image(entry) on the loader value il: the cached image, or
\* the container's image under the loader's own height limit, inserted when
\* the load succeeds.
LoaderGetImage(il, e) ==
  IF e \in DOMAIN il.cache THEN [loader |-> il, res |-> Ok(il.cache[e])]
  ELSE LoaderLoad(il, e)

\* The values a front end may hand to the settings commands.
MaxImageHeightInputs == {-1, 0, 1}

PdfRenderingHeightInputs == {-1, 0, 1}

MethodInputs ==
  {"", "nearest", "triangle", "lanczos3", "Triangle"}

\* set_image_resize_method's match on the method name.
FilterType(method) ==
  CASE method = "nearest" -> Some("Nearest")
    [] method = "triangle" -> Some("Triangle")
    [] method = "catmullRom" -> Some("CatmullRom")
    [] method = "gaussian" -> Some("Gaussian")
    [] method = "lanczos3" -> Some("Lanczos3")
    [] OTHER -> None

\* get_entries_in_container that opens the container and returns its entries
\* without asking the loader for anything.
GetEntriesInContainer_NoPreload(path) ==
  /\ caller.pc = "idle"
  /\ ~Poisoned
  /\ container_state' = open_container(container_state, path, 1)
  /\ probe' = [fn |-> "get_entries_in_container",
                out |-> IF ~OpenResult(path).ok THEN OpenResult(path)
                        ELSE [ok |-> TRUE,
                              entries |-> get_entries(NewContainer(path)),
                              is_directory |-> is_directory(NewContainer(path))]]
  /\ UNCHANGED <<loader, settings>>

\* The end of a get_entries_in_container that opened path: the new loader is
\* stored, the entries and the flag of state.container are taken, and
\* request_preload(0, entries.len()) is called on state.image_loader.
Opened(path, threads) ==
  LET opened == open_container(container_state, path, threads)
      container == opened.container.value
      es == get_entries(container)
  IN /\ container_state' =
          [opened EXCEPT !.image_loader =
             Some(LoaderRequestPreload(opened.image_loader.value, 0, Len(es)))]
     /\ probe' = [fn |-> "get_entries_in_container",
                   out |-> [ok |-> TRUE, entries |-> es,
                            is_directory |-> is_directory(container)]]

\* The get_entries_in_container command on a machine with num_cpus cores:
\* open_container(&path)?, the entries and the flag of state.container, then
\* request_preload(0, entries.len()) on state.image_loader.  Where the
\* machine gives ImageLoader::new no thread, the command panics with
\* self.container assigned and the mutex is poisoned.  When open_container
\* succeeds while the loader it replaces has closures in its pool, the
\* assignment to self.image_loader drops that loader: its token is set and
\* the command, holding the AppState lock, waits in thread_pool.join() with
\* self.container already assigned.
GetEntriesInContainer(path) ==
  /\ caller.pc = "idle"
  /\ \E num_cpus \in 1..MaxCpus :
       LET threads == PoolThreads(num_cpus) IN
       /\ thread_pool \in {0, threads}
       /\ IF Poisoned
          THEN /\ probe' = [fn |-> "get_entries_in_container", out |-> Err("Mutex")]
               /\ UNCHANGED <<container_state, caller, phase, thread_pool>>
          ELSE IF ~OpenResult(path).ok
          THEN /\ container_state' = open_container(container_state, path, threads)
               /\ probe' = [fn |-> "get_entries_in_container",
                             out |-> OpenResult(path)]
               /\ UNCHANGED <<caller, phase, thread_pool>>
          ELSE IF threads < 1
          THEN /\ container_state' = open_container(container_state, path, threads)
               /\ probe' = [fn |-> "get_entries_in_container",
                             out |-> OpenOutcome(path, threads)]
               /\ phase' = "panicked"
               /\ UNCHANGED <<caller, thread_pool>>
          ELSE IF Pending(container_state)
          THEN /\ container_state' =
                    [container |-> Some(NewContainer(path)),
                     image_loader |-> Some(Cancelled(container_state))]
               /\ caller' = [pc |-> "replace_join", path |-> path]
               /\ UNCHANGED <<probe, phase, thread_pool>>
          ELSE /\ Opened(path, threads)
               /\ thread_pool' = threads
               /\ UNCHANGED <<caller, phase>>
  /\ UNCHANGED <<untouched, settings>>

\* thread_pool.join() of the replaced loader returns: its pool is empty.  The
\* command goes on to its end.
GetEntriesInContainerJoin ==
  /\ caller.pc = "replace_join"
  /\ ~Pending(container_state)
  /\ Opened(caller.path, thread_pool)
  /\ caller' = Idle
  /\ UNCHANGED <<untouched, phase, thread_pool, settings>>

\* thread_pool.join() of the loader that determine_epub_novel drops returns:
\* image_loader is None and the command looks at the path.
DetermineEpubNovelJoin ==
  /\ caller.pc = "close_join"
  /\ ~Pending(container_state)
  /\ container_state' = [container |-> None, image_loader |-> None]
  /\ probe' = [fn |-> "determine_epub_novel", path |-> caller.path,
                out |-> EpubNovel(caller.path)]
  /\ caller' = Idle
  /\ UNCHANGED <<untouched, phase, thread_pool, settings>>

\* A thread of the open loader's pool takes the closure at the head of the
\* channel and loads the closure's token: a closure that finds it set returns.
\* The pool has the one thread PoolThreads allows.
LoaderTaskStart ==
  /\ container_state.image_loader.some
  /\ LET il == container_state.image_loader.value IN
       /\ il.queue # << >>
       /\ il.active = {}
       /\ container_state' =
            [container_state EXCEPT
               !.image_loader.value.queue = Tail(@),
               !.image_loader.value.active =
                  IF il.tokens[Head(il.queue).token] THEN {} ELSE {Head(il.queue)}]
  /\ UNCHANGED <<loader, probe, settings>>

\* The rest of the closure: load_image, and cache_clone.insert when it
\* succeeds.
LoaderTaskLoad ==
  /\ container_state.image_loader.some
  /\ LET il == container_state.image_loader.value IN
       /\ il.active # {}
       /\ LET t == CHOOSE x \in il.active : TRUE
              n == Len(get_entries(il.container))
              c == VariantGetImage(il.container.variant, n,
                                   [index |-> t.entry - 1, form |-> "entry"])
              r == IF ~c.ok THEN c
                   ELSE LoadPolicy(t.entry, c.image, il.max_image_height)
          IN container_state' =
               [container_state EXCEPT
                  !.image_loader.value.active = {},
                  !.image_loader.value.cache =
                     IF r.ok THEN Insert(@, t.entry, r.image) ELSE @]
  /\ UNCHANGED <<loader, probe, settings>>

\* What the get_image command answers for the Result of the loader.
Answer(res) ==
  IF res.ok THEN [ok |-> TRUE, body |-> Response(res.image)] ELSE res

\* The get_image command: image_loader.get_image(&entry_name)? under the
\* AppState lock, then the response.  get_image gives the cache up after its
\* lookup: on a miss the threads of the pool go on while the command loads.
GetImageCommand(entry_name) ==
  /\ caller.pc = "idle"
  /\ IF Poisoned
     THEN /\ probe' = [fn |-> "get_image", out |-> Err("Mutex")]
          /\ caller' = caller
     ELSE IF ~container_state.image_loader.some
     THEN /\ probe' = [fn |-> "get_image", out |-> Err("Other")]
          /\ caller' = caller
     ELSE IF entry_name \in DOMAIN container_state.image_loader.value.cache
     THEN /\ probe' = [fn |-> "get_image",
                        out |-> Answer(LoaderGetImage(container_state.image_loader.value,
                                                      entry_name).res)]
          /\ caller' = caller
     ELSE /\ caller' = [pc |-> "get_image", entry |-> entry_name]
          /\ probe' = probe
  /\ UNCHANGED <<untouched, phase, thread_pool, container_state, settings>>

\* The rest of a get_image that missed: the load, the insert whatever the
\* cache holds by now, and the response.
GetImageCommandLoad ==
  /\ caller.pc = "get_image"
  /\ LET g == LoaderLoad(container_state.image_loader.value, caller.entry) IN
       /\ container_state' = [container_state EXCEPT !.image_loader = Some(g.loader)]
       /\ probe' = [fn |-> "get_image", out |-> Answer(g.res)]
  /\ caller' = Idle
  /\ UNCHANGED <<untouched, phase, thread_pool, settings>>

\* set_max_image_height that also pushes the height into the open loader.
SetMaxImageHeight_Live(height) ==
  /\ height < 0 \/ caller.pc = "idle"
  /\ LET out == IF height < 0 THEN Err("Other")
                ELSE IF Poisoned THEN Err("Mutex") ELSE [ok |-> TRUE]
     IN /\ settings' = IF out.ok THEN [settings EXCEPT !.max_image_height = height]
                        ELSE settings
        /\ container_state' =
             IF ~out.ok \/ ~container_state.image_loader.some THEN container_state
             ELSE [container_state EXCEPT !.image_loader.value.max_image_height = height]
        /\ probe' = [fn |-> "set_max_image_height", arg |-> height, out |-> out]
  /\ UNCHANGED loader

\* The set_max_image_height command: a negative height is turned away before
\* state.lock(), whoever holds the lock.
SetMaxImageHeight(height) ==
  /\ height < 0 \/ caller.pc = "idle"
  /\ LET out == IF height < 0 THEN Err("Other")
                ELSE IF Poisoned THEN Err("Mutex") ELSE [ok |-> TRUE]
     IN /\ settings' = IF out.ok THEN [settings EXCEPT !.max_image_height = height]
                        ELSE settings
        /\ probe' = [fn |-> "set_max_image_height", arg |-> height, out |-> out]
  /\ UNCHANGED <<loader, container_state>>

\* set_pdf_rendering_height that turns away negative heights only.
SetPdfRenderingHeight_AcceptZero(height) ==
  /\ height < 0 \/ caller.pc = "idle"
  /\ LET out == IF height < 0 THEN Err("Other")
                ELSE IF Poisoned THEN Err("Mutex") ELSE [ok |-> TRUE]
     IN /\ settings' = IF out.ok THEN [settings EXCEPT !.pdf_rendering_height = height]
                        ELSE settings
        /\ probe' = [fn |-> "set_pdf_rendering_height", arg |-> height, out |-> out]
  /\ UNCHANGED <<loader, container_state>>

\* The set_pdf_rendering_height command: a height below 1 is turned away
\* before state.lock().
SetPdfRenderingHeight(height) ==
  /\ height < 1 \/ caller.pc = "idle"
  /\ LET out == IF height < 1 THEN Err("Other")
                ELSE IF Poisoned THEN Err("Mutex") ELSE [ok |-> TRUE]
     IN /\ settings' = IF out.ok THEN [settings EXCEPT !.pdf_rendering_height = height]
                        ELSE settings
        /\ probe' = [fn |-> "set_pdf_rendering_height", arg |-> height, out |-> out]
  /\ UNCHANGED <<loader, container_state>>

\* The set_image_resize_method command: the empty name is turned away before
\* state.lock(), a name that the match does not know after it.
SetImageResizeMethod(method) ==
  /\ method = "" \/ caller.pc = "idle"
  /\ LET out == IF method = "" THEN Err("Other")
                ELSE IF Poisoned THEN Err("Mutex")
                ELSE IF FilterType(method).some THEN [ok |-> TRUE] ELSE Err("Other")
     IN /\ settings' = IF out.ok
                        THEN [settings EXCEPT !.image_resize_method = FilterType(method).value]
                        ELSE settings
        /\ probe' = [fn |-> "set_image_resize_method", arg |-> method, out |-> out]
  /\ UNCHANGED <<loader, container_state>>

\* What the settings file holds for the renderer: a height, which may be
\* negative, and the name of a filter, which may be none of the five.
StoredRenderingSettings ==
  [max_image_height : {-1, 0}, image_resize_method : {"lanczos3", "Triangle"}]

\* setup_container_settings at start-up: the stored height as it is, the
\* filter of the stored name or Triangle; pdf_rendering_height is not
\* written.
setup_container_settings(state_settings, rendering) ==
  [state_settings EXCEPT
     !.max_image_height = rendering.max_image_height,
     !.image_resize_method = IF FilterType(rendering.image_resize_method).some
                             THEN FilterType(rendering.image_resize_method).value
                             ELSE "Triangle"]

\* The files behind the containers the commands open are readable images.
\* The commands are served after setup has run.
CommandInit ==
  /\ kind = [e \in EntrySet |-> "ok"]
  /\ max_image_height = 0
  /\ phase = "none"
  /\ thread_pool = 0
  /\ cache = << >>
  /\ tokens = << >>
  /\ is_preloading_cancel_requested = 0
  /\ queue = << >>
  /\ active = {}
  /\ caller = Idle
  /\ ret = NoRet
  /\ ops = 0
  /\ preload_log = ""
  /\ probe = NoProbe
  /\ container_state = [container |-> None, image_loader |-> None]
  /\ settings \in {setup_container_settings(DefaultSettings, rendering) :
                      rendering \in StoredRenderingSettings}
  /\ format_container = NoContainer

\* The paths the front end hands to the commands: directories and PDF files,
\* which their constructors accept or not, files of another kind and files
\* without extension.
CommandPaths ==
  {path \in Paths : /\ path.target \in {"Directory", "Pdf", "Unsupported", "NoExtension"}
                    /\ ~path.is_epub}

\* The paths the front end asks determine_epub_novel about.
NovelPaths ==
  {path \in Paths : /\ path.file = 1
                    /\ \/ path.target = "Epub"
                       \/ path.target = "Directory" /\ path.valid}

CommandNext ==
  \/ \E path \in CommandPaths : GetEntriesInContainer(path)
  \/ \E path \in NovelPaths : DetermineEpubNovel(path)
  \/ DetermineEpubNovelJoin
  \/ \E e \in EntrySet : GetImageCommand(e)
  \/ GetImageCommandLoad
  \/ \E h \in MaxImageHeightInputs : SetMaxImageHeight(h)
  \/ \E h \in PdfRenderingHeightInputs : SetPdfRenderingHeight(h)
  \/ \E m \in MethodInputs : SetImageResizeMethod(m)
  \/ GetEntriesInContainerJoin
  \/ LoaderTaskStart
  \/ LoaderTaskLoad

CommandSpec == CommandInit /\ [][CommandNext]_vars

(* ----------------------- the replacement of a loader ------------------- *)
\* The ImageLoader of the loader variables is the one that container_state
\* holds.  The paths the front end opens here lead to one zip file, which
\* its constructor accepts or not.
ReplacePaths == {path \in Paths : path.target = "Zip" /\ path.file = 1}

\* The first open_container of the application, on a machine with num_cpus
\* cores: no loader is dropped; ImageLoader::new builds the pool.
OpenFirst(path, num_cpus) ==
  /\ phase = "none"
  /\ OpenResult(path).ok
  /\ LET n == PoolThreads(num_cpus) IN
       IF n < 1
       THEN /\ phase' = "panicked"
            /\ container_state' = open_container(container_state, path, n)
            /\ UNCHANGED <<thread_pool, tokens, is_preloading_cancel_requested, probe>>
       ELSE /\ phase' = "alive"
            /\ thread_pool' = n
            /\ tokens' = <<FALSE>>
            /\ is_preloading_cancel_requested' = 1
            /\ container_state' = open_container(container_state, path, n)
            /\ probe' = [fn |-> "open_container", path |-> path,
                          replaced |-> FALSE, out |-> OpenResult(path)]
  /\ UNCHANGED <<kind, max_image_height, settings, format_container, ops, cache,
                 queue, active, caller, ret, preload_log>>

\* open_container while a loader is open.  An error return leaves the loader
\* alone.  Otherwise self.container is assigned, the new loader is built, and
\* the assignment to self.image_loader drops the loader it replaces: the
\* drop starts with cancel_preload.
OpenReplace(path) ==
  /\ CanCall
  /\ ops' = ops + 1
  /\ IF ~OpenResult(path).ok
     THEN /\ container_state' = open_container(container_state, path, thread_pool)
          /\ probe' = [fn |-> "open_container", path |-> path,
                        replaced |-> FALSE, out |-> OpenResult(path)]
          /\ UNCHANGED <<tokens, caller>>
     ELSE /\ container_state' = [container_state EXCEPT
                                   !.container = Some(NewContainer(path))]
          /\ tokens' = [tokens EXCEPT ![is_preloading_cancel_requested] = TRUE]
          /\ caller' = [pc |-> "replace_join", path |-> path]
          /\ probe' = probe
  /\ UNCHANGED <<kind, max_image_height, settings, format_container, phase,
                 thread_pool, cache, is_preloading_cancel_requested, queue, active,
                 ret, preload_log>>

\* A replacement that stores the new loader without joining the old pool.
OpenReplaceJoin_NoWait ==
  /\ caller.pc = "replace_join"
  /\ phase' = "dropped"
  /\ container_state' = open_container(container_state, caller.path, thread_pool)
  /\ probe' = [fn |-> "open_container", path |-> caller.path,
                replaced |-> TRUE, out |-> OpenResult(caller.path)]
  /\ caller' = Idle
  /\ UNCHANGED <<kind, max_image_height, settings, format_container, ops,
                 thread_pool, cache, tokens, is_preloading_cancel_requested, queue,
                 active, ret, preload_log>>

\* The rest of the drop inside the assignment: thread_pool.join() returns
\* once no job is queued or active; the new loader is stored and
\* open_container returns Ok.
OpenReplaceJoin ==
  /\ caller.pc = "replace_join"
  /\ queue = << >>
  /\ active = {}
  /\ phase' = "dropped"
  /\ container_state' = open_container(container_state, caller.path, thread_pool)
  /\ probe' = [fn |-> "open_container", path |-> caller.path,
                replaced |-> TRUE, out |-> OpenResult(caller.path)]
  /\ caller' = Idle
  /\ UNCHANGED <<kind, max_image_height, settings, format_container, ops,
                 thread_pool, cache, tokens, is_preloading_cancel_requested, queue,
                 active, ret, preload_log>>

\* The loader is built with the height limit of the settings; the files of
\* the archive can be read, and some of them may not decode.
ReplaceInit ==
  /\ Init
  /\ max_image_height = settings.max_image_height
  /\ \A e \in EntrySet : kind[e] \in {"ok", "corrupt"}

ReplaceCallerStep == DropJoin \/ OpenReplaceJoin

\* The calls that hand closures to the pool, the pool's workers, and the two
\* ways a loader is dropped.
ReplaceNext ==
  \/ \E path \in ReplacePaths, n \in 1..MaxCpus : OpenFirst(path, n)
  \/ \E b \in 0..NumEntries, c \in 0..NumEntries : RequestPreload(b, c)
  \/ TaskStart
  \/ \E t \in active : TaskLoad(t)
  \/ \E path \in ReplacePaths : OpenReplace(path)
  \/ OpenReplaceJoin
  \/ DropCancel
  \/ DropJoin

ReplaceSpec == ReplaceInit /\ [][ReplaceNext]_vars

\* The operating system schedules every pool thread and the calling thread,
\* and every single load terminates.
FairReplaceSpec == ReplaceSpec /\ WF_vars(Worker) /\ WF_vars(ReplaceCallerStep)

(* --------------------------- format containers ------------------------- *)
\* DirectoryContainer, ZipContainer, RarContainer and PdfContainer keep their
\* own cache (a HashMap behind a Mutex), their own pool and one cancel flag.
\* format_container holds such a container and the position of every thread
\* that runs its code: the calling thread and the pool's threads.
FormatVariants == {"Directory", "Zip", "Rar", "Pdf"}

CallerThread == 0

\* container::NUM_OF_THREADS, the size of a format container's pool: one pool
\* thread runs beside the calling thread.
NUM_OF_THREADS == 1

Workers == 1..NUM_OF_THREADS

Threads == {CallerThread} \cup Workers

\* The cache's mutex is held by no thread.
Unlocked == -1

NoJob == [op |-> "none"]

IdleThread == [pc |-> "idle", job |-> NoJob, i |-> 0, pdfium |-> 0, added |-> {}]

\* The order in which a RAR archive stores the headers of its entries: the
\* order of the sorted entry list, or the opposite one.
HeaderOrders == {entries, [i \in 1..NumEntries |-> entries[NumEntries + 1 - i]]}

\* Everything but the format container.
outside == <<kind, max_image_height, phase, thread_pool, cache, tokens,
             is_preloading_cancel_requested, queue, active, caller, ret,
             preload_log, ops, probe, container_state, settings>>

\* XxxContainer::new
ContainerNew(variant, headers) ==
  /\ format_container = NoContainer
  /\ variant # "Rar" => headers = entries
  /\ format_container' =
       [variant |-> variant, headers |-> headers, phase |-> "alive",
        cache |-> {}, lock |-> Unlocked,
        is_preloading_cancel_requested |-> FALSE, queue |-> << >>,
        threads |-> [t \in Threads |-> IdleThread],
        calls |-> 0, bindings |-> 0, finished |-> NoJob]
  /\ UNCHANGED outside

ContainerCanCall ==
  /\ format_container # NoContainer
  /\ format_container.phase = "alive"
  /\ format_container.threads[CallerThread].pc = "idle"
  /\ format_container.calls < MaxCalls

\* The entry thread t is looking up, loading or inserting.
CurrentEntry(t) ==
  LET th == format_container.threads[t] IN
  IF th.job.op = "get_image" THEN th.job.entry
  ELSE IF format_container.variant = "Rar" THEN format_container.headers[th.i]
  ELSE entries[th.i + 1]

\* get_image enters get_image_from_cache, which locks the cache.
ContainerGetImageCall(e) ==
  /\ ContainerCanCall
  /\ format_container.lock = Unlocked
  /\ format_container' =
       [format_container EXCEPT
          !.lock = CallerThread,
          !.calls = @ + 1,
          !.threads[CallerThread] =
             [IdleThread EXCEPT !.pc = "lookup",
                                !.job = [op |-> "get_image", entry |-> e]]]
  /\ UNCHANGED outside

\* What thread t does once the entry it is at is dealt with: get_image
\* returns; preload goes on to the next index (in a RAR, the next header).
AfterEntry(fc, t) ==
  IF fc.threads[t].job.op = "get_image"
  THEN [fc EXCEPT !.threads[t] = IdleThread]
  ELSE [fc EXCEPT !.threads[t].pc = "next", !.threads[t].i = @ + 1,
                  !.threads[t].pdfium = 0]

\* What thread t does when the load of its entry fails: the ? operator
\* returns the error from get_image, or from preload, whose closure logs
\* "Error in preloading" for a result of Err.
AfterError(fc, t) ==
  IF fc.threads[t].job.op = "get_image"
  THEN [fc EXCEPT !.threads[t] = IdleThread]
  ELSE [fc EXCEPT !.threads[t] = IdleThread,
                  !.finished = fc.threads[t].job
                                 @@ [res |-> "Err", added |-> fc.threads[t].added]]

\* A lookup that keeps the guard until the entry is dealt with.
ThreadLookup_KeepGuard(t) ==
  LET fc == format_container
      e == CurrentEntry(t)
  IN /\ fc # NoContainer
     /\ fc.threads[t].pc = "lookup"
     /\ format_container' =
          IF e \in fc.cache
          THEN AfterEntry([fc EXCEPT !.lock = Unlocked], t)
          ELSE [fc EXCEPT
                  !.threads[t].pc = "load",
                  !.threads[t].pdfium = IF fc.variant = "Pdf" THEN fc.bindings + 1 ELSE 0,
                  !.bindings = IF fc.variant = "Pdf" THEN @ + 1 ELSE @]
     /\ UNCHANGED outside

\* A miss that takes the binding the container opened first instead of
\* constructing one.
ThreadLookup_SharedBinding(t) ==
  LET fc == format_container
      e == CurrentEntry(t)
  IN /\ fc # NoContainer
     /\ fc.threads[t].pc = "lookup"
     /\ format_container' =
          IF e \in fc.cache
          THEN AfterEntry([fc EXCEPT !.lock = Unlocked], t)
          ELSE [fc EXCEPT
                  !.lock = Unlocked,
                  !.threads[t].pc = "load",
                  !.threads[t].pdfium = IF fc.variant = "Pdf" THEN 1 ELSE 0,
                  !.bindings = IF fc.variant = "Pdf" THEN Max(@, 1) ELSE @]
     /\ UNCHANGED outside

\* The lookup under the lock (get, contains_key); the guard is a temporary
\* and is dropped with the statement.  On a miss the thread goes on to load,
\* and in a PdfContainer get_pdfium constructs a binding for this load.
ThreadLookup(t) ==
  LET fc == format_container
      e == CurrentEntry(t)
  IN /\ fc # NoContainer
     /\ fc.threads[t].pc = "lookup"
     /\ format_container' =
          IF e \in fc.cache
          THEN AfterEntry([fc EXCEPT !.lock = Unlocked], t)
          ELSE [fc EXCEPT
                  !.lock = Unlocked,
                  !.threads[t].pc = "load",
                  !.threads[t].pdfium = IF fc.variant = "Pdf" THEN fc.bindings + 1 ELSE 0,
                  !.bindings = IF fc.variant = "Pdf" THEN @ + 1 ELSE @]
     /\ UNCHANGED outside

\* load_image (in a RAR preload, header.read and Image::new).
ThreadLoad(t) ==
  LET fc == format_container IN
  /\ fc # NoContainer
  /\ fc.threads[t].pc = "load"
  /\ format_container' =
       IF kind[CurrentEntry(t)] = "ok"
       THEN [fc EXCEPT !.threads[t].pc = "lock_insert"]
       ELSE AfterError(fc, t)
  /\ UNCHANGED outside

\* cache.lock() before the insert.
ThreadLockInsert(t) ==
  LET fc == format_container IN
  /\ fc # NoContainer
  /\ fc.threads[t].pc = "lock_insert"
  /\ fc.lock = Unlocked
  /\ format_container' = [fc EXCEPT !.lock = t, !.threads[t].pc = "insert"]
  /\ UNCHANGED outside

\* insert(entry, image) under the lock; the guard and, at the end of the
\* call or of the iteration, the binding are dropped.
ThreadInsert(t) ==
  LET fc == format_container
      e == CurrentEntry(t)
  IN /\ fc # NoContainer
     /\ fc.threads[t].pc = "insert"
     /\ format_container' =
          AfterEntry([fc EXCEPT !.cache = @ \cup {e},
                                !.lock = Unlocked,
                                !.threads[t].added = @ \cup {e}], t)
     /\ UNCHANGED outside

\* end = (begin_index + count).min(total_pages); one closure that runs
\* preload(begin_index, end, ..) is handed to the pool.
ContainerRequestPreload(begin_index, count) ==
  LET fc == format_container
      end == Min(begin_index + count, Len(entries))
  IN /\ ContainerCanCall
     /\ format_container' =
          [fc EXCEPT
             !.calls = @ + 1,
             !.queue = IF begin_index >= end THEN @
                       ELSE Append(@, [op |-> "preload", begin_index |-> begin_index,
                                       count |-> count, end |-> end,
                                       before |-> fc.cache])]
     /\ UNCHANGED outside

\* A pool thread takes the next closure: preload starts at begin_index, in a
\* RAR at the first header of the archive.
PoolStart(t) ==
  LET fc == format_container IN
  /\ fc # NoContainer
  /\ t \in Workers
  /\ fc.threads[t].pc = "idle"
  /\ fc.queue # << >>
  /\ format_container' =
       [fc EXCEPT
          !.queue = Tail(@),
          !.threads[t] = [IdleThread EXCEPT
                            !.pc = "next", !.job = Head(fc.queue),
                            !.i = IF fc.variant = "Rar" THEN 1
                                  ELSE Head(fc.queue).begin_index]]
  /\ UNCHANGED outside

\* The names preload was asked for.
TargetNames(job) == {entries[k] : k \in (job.begin_index + 1)..job.end}

\* preload has no further entry to look at: the index reached end; in a RAR,
\* the headers are read through or every target name has been met
\* (remaining == 0).
LoopDone(fc, t) ==
  LET th == fc.threads[t] IN
  IF fc.variant = "Rar"
  THEN \A k \in th.i..NumEntries : fc.headers[k] \notin TargetNames(th.job)
  ELSE th.i >= th.job.end

\* preload returns Ok: the loop is over, or the cancel flag is set.
PreloadReturn(t) ==
  LET fc == format_container IN
  /\ fc # NoContainer
  /\ fc.threads[t].pc = "next"
  /\ LoopDone(fc, t) \/ fc.is_preloading_cancel_requested
  /\ format_container' =
       [fc EXCEPT !.threads[t] = IdleThread,
                  !.finished = fc.threads[t].job
                                 @@ [res |-> "Ok", added |-> fc.threads[t].added]]
  /\ UNCHANGED outside

\* In a RAR, a header that is not a target name is skipped.
PreloadSkip(t) ==
  LET fc == format_container IN
  /\ fc # NoContainer
  /\ fc.threads[t].pc = "next"
  /\ fc.variant = "Rar"
  /\ ~LoopDone(fc, t)
  /\ ~fc.is_preloading_cancel_requested
  /\ fc.headers[fc.threads[t].i] \notin TargetNames(fc.threads[t].job)
  /\ format_container' = [fc EXCEPT !.threads[t].i = @ + 1]
  /\ UNCHANGED outside

\* The next entry of the loop: the load of the cancel flag finds it clear,
\* and the thread goes on to cache_mutex.lock().
PreloadCheck(t) ==
  LET fc == format_container IN
  /\ fc # NoContainer
  /\ fc.threads[t].pc = "next"
  /\ ~LoopDone(fc, t)
  /\ ~fc.is_preloading_cancel_requested
  /\ fc.variant = "Rar" => fc.headers[fc.threads[t].i] \in TargetNames(fc.threads[t].job)
  /\ format_container' = [fc EXCEPT !.threads[t].pc = "lock"]
  /\ UNCHANGED outside

\* cache_mutex.lock() for contains_key: the thread waits until the mutex is
\* free, whatever has happened to the cancel flag since it was read.
PreloadLock(t) ==
  LET fc == format_container IN
  /\ fc # NoContainer
  /\ fc.threads[t].pc = "lock"
  /\ fc.lock = Unlocked
  /\ format_container' = [fc EXCEPT !.lock = t, !.threads[t].pc = "lookup"]
  /\ UNCHANGED outside

\* Drop: the cancel flag is stored, then thread_pool.join() waits.
ContainerDrop ==
  /\ format_container # NoContainer
  /\ format_container.phase = "alive"
  /\ format_container.threads[CallerThread].pc = "idle"
  /\ format_container' =
       [format_container EXCEPT !.is_preloading_cancel_requested = TRUE,
                                !.phase = "drop_join"]
  /\ UNCHANGED outside

ContainerDropJoin ==
  /\ format_container # NoContainer
  /\ format_container.phase = "drop_join"
  /\ format_container.queue = << >>
  /\ \A t \in Workers : format_container.threads[t].pc = "idle"
  /\ format_container' = [format_container EXCEPT !.phase = "dropped"]
  /\ UNCHANGED outside

ContainerNext ==
  \/ \E variant \in FormatVariants, headers \in HeaderOrders : ContainerNew(variant, headers)
  \/ \E e \in EntrySet : ContainerGetImageCall(e)
  \/ \E begin_index, count \in 0..NumEntries : ContainerRequestPreload(begin_index, count)
  \/ \E t \in Threads : ThreadLookup(t)
  \/ \E t \in Threads : ThreadLoad(t)
  \/ \E t \in Threads : ThreadLockInsert(t)
  \/ \E t \in Threads : ThreadInsert(t)
  \/ \E t \in Workers : PoolStart(t)
  \/ \E t \in Workers : PreloadReturn(t)
  \/ \E t \in Workers : PreloadSkip(t)
  \/ \E t \in Workers : PreloadCheck(t)
  \/ \E t \in Workers : PreloadLock(t)
  \/ ContainerDrop
  \/ ContainerDropJoin

\* A file either loads or fails to load; the loader's height limit plays no
\* part in a format container.
ContainerInit ==
  /\ Init
  /\ max_image_height = 0
  /\ \A e \in EntrySet : kind[e] \in {"ok", "corrupt"}

ContainerSpec == ContainerInit /\ [][ContainerNext]_vars

(* ================================ claims =============================== *)
Cur == is_preloading_cancel_requested

PoolDrained == queue = << >> /\ active = {}

Queued == {queue[i] : i \in 1..Len(queue)}

Cached(e) == get_image_from_cache(e) = [some |-> TRUE, image |-> load_image(e).image]

\* The entries at the indices [begin_index, min(begin_index + count, len)).
RangeEntries(begin_index, count) ==
  {entries[i] : i \in (begin_index + 1)..PreloadEnd(begin_index, count)}

EmptyRange(begin_index, count) == begin_index >= PreloadEnd(begin_index, count)

(* C1: get_image(e) on a cached e returns the cached image without reaching  *)
(* the container; on a miss whose load succeeds the loaded (policy-resized)  *)
(* image is inserted under e and that same image is returned, so the cache   *)
(* holds e afterwards.                                                       *)
C1_Returned ==
  (ret.op = "get_image" /\ ret.res.ok)
    => /\ get_image_from_cache(ret.entry) = [some |-> TRUE, image |-> ret.res.image]
       /\ ret.invoked => ret.res = load_image(ret.entry)

C1_LoadOnlyOnMiss ==
  (caller.pc = "idle" /\ caller'.pc = "gi_load") => caller'.entry \notin DOMAIN cache

C1_HitReturnsCached ==
  (caller.pc = "idle" /\ ops' # ops /\ caller'.pc = "idle" /\ ret'.op = "get_image")
    => /\ ~ret'.invoked
       /\ ret'.entry \in DOMAIN cache
       /\ ret'.res = Ok(cache[ret'.entry])
       /\ cache' = cache

C1_GetImageContract ==
  []C1_Returned /\ [][C1_LoadOnlyOnMiss /\ C1_HitReturnsCached]_vars

C1_Witness ==
  /\ ret.op = "get_image"
  /\ ret.res.ok
  /\ ret.invoked
  /\ ret.res.image.data[1] = "jpeg80"
  /\ PoolDrained

(* C2: after a get_image(e) that succeeded, the get_image(e) that follows it *)
(* does not reach load_image and returns the identical image (data, width,   *)
(* height), whatever the preload tasks do in between.                        *)
C2_Idempotent ==
  [][(ret.op = "get_image" /\ ret.res.ok)
       => /\ ~(caller'.pc = "gi_load" /\ caller'.entry = ret.entry)
          /\ (ret'.op = "get_image" /\ ret'.entry = ret.entry) => ret'.res = ret.res]_vars

C2_Witness ==
  /\ ret.op = "get_image"
  /\ ret.res.ok
  /\ ~ret.invoked
  /\ Len(tokens) = 1

(* C3: after request_preload(0, N), with no cancel_preload, request_preload  *)
(* or drop after it, the pool eventually drains, and once it has drained     *)
(* every entry at an index in [0, min(N, entry_count)) whose load succeeds   *)
(* is in the cache with the image a direct get_image would produce.          *)
C3_DrainedCached ==
  (/\ ret.op = "request_preload"
   /\ ret.begin_index = 0
   /\ caller.pc # "drop_join"
   /\ PoolDrained)
    => \A e \in RangeEntries(0, ret.count) : load_image(e).ok => Cached(e)

C3_PreloadCompletes == []C3_DrainedCached /\ (~PoolDrained ~> PoolDrained)

C3_Witness ==
  /\ ret.op = "request_preload"
  /\ ret.begin_index = 0
  /\ ret.count = NumEntries
  /\ ~tokens[Cur]
  /\ PoolDrained
  /\ DOMAIN cache = EntrySet

(* C4: every request_preload, the empty range included, cancels the previous *)
(* generation: a task of an earlier request_preload that has not started     *)
(* when the call returns is never started into a load.                       *)
C4_EarlierTask(t) ==
  EmptyRange(ret.begin_index, ret.count) \/ t.token # Cur

C4_EveryRequestCancels ==
  [][(/\ ret.op = "request_preload"
      /\ queue # << >>
      /\ queue' = Tail(queue)
      /\ C4_EarlierTask(Head(queue)))
       => (active' = active /\ cache' = cache)]_vars

(* C5: a request_preload with a non-empty range installs a fresh token that  *)
(* is not cancelled, every task it schedules captures that token, and a      *)
(* token is set only by a later cancel_preload, request_preload or drop.     *)
C5_FreshNotCancelled ==
  (/\ ret.op = "request_preload"
   /\ ~EmptyRange(ret.begin_index, ret.count)
   /\ caller.pc # "drop_join")
    => ~tokens[Cur]

C5_Install ==
  Cur' # Cur
    => /\ Cur' \notin DOMAIN tokens
       /\ ~tokens'[Cur']
       /\ Len(queue') >= Len(queue)
       /\ \A i \in (Len(queue) + 1)..Len(queue') : queue'[i].token = Cur'

C5_SetOnlyByCaller ==
  \A k \in DOMAIN tokens :
    (~tokens[k] /\ tokens'[k])
      => /\ k = Cur
         /\ caller.pc = "idle"
         /\ \/ caller'.pc = "drop_join"
            \/ ret'.op \in {"cancel_preload", "request_preload"}

C5_FreshToken ==
  []C5_FreshNotCancelled /\ [][C5_Install /\ C5_SetOnlyByCaller]_vars

C5_Witness ==
  /\ ret.op = "request_preload"
  /\ Len(tokens) = 3
  /\ ~tokens[Cur]
  /\ \E t \in active : t.token = Cur
  /\ \E t \in Queued : t.token = Cur

(* C6: a token that has been set stays set in every later state, and a task  *)
(* holding a token other than the loader's current one sees it set.          *)
C6_OldTokensSet ==
  \A t \in Queued \cup active : t.token # Cur => tokens[t.token]

C6_StaysSet ==
  \A k \in DOMAIN tokens : tokens[k] => (k \in DOMAIN tokens' /\ tokens'[k])

C6_TokensNeverReset == []C6_OldTokensSet /\ [][C6_StaysSet]_vars

C6_Witness ==
  /\ Len(tokens) = 3
  /\ ~tokens[Cur]
  /\ \E t \in Queued : t.token # Cur
  /\ \E t \in active : t.token # Cur

(* C7: a preload task that finds its token set when it starts returns at     *)
(* once: no container load, no cache insert, no success or error logged.     *)
C7_CancelledTaskIsSilent ==
  [][(queue # << >> /\ queue' = Tail(queue) /\ tokens[Head(queue).token])
       => (active' = active /\ cache' = cache /\ preload_log' = preload_log)]_vars

C7_Witness ==
  /\ Len(tokens) > 1
  /\ PoolDrained
  /\ preload_log = ""
  /\ DOMAIN cache = {}
  /\ \A e \in EntrySet : load_image(e).ok

(* C8: the token is looked at once, before the load: a task cancelled after  *)
(* that still loads and inserts its one entry; only running tasks add to the *)
(* cache on behalf of the pool, and there are at most pool-size of them.     *)
C8_PoolBound == Cardinality(active) <= thread_pool

C8_RunningTaskCompletes ==
  \A t \in active :
    (t \notin active' /\ tokens[t.token] /\ load_image(t.entry).ok)
      => (t.entry \in DOMAIN cache' /\ cache'[t.entry] = load_image(t.entry).image)

C8_OnlyRunningTasksInsert ==
  (cache' # cache /\ caller' = caller)
    => \E t \in active : active' = active \ {t} /\ DOMAIN cache' = DOMAIN cache \cup {t.entry}

C8_CoarseCancellation ==
  []C8_PoolBound /\ [][C8_RunningTaskCompletes /\ C8_OnlyRunningTasksInsert]_vars

C8_Witness ==
  /\ ret.op = "cancel_preload"
  /\ \E t \in active : tokens[t.token] /\ load_image(t.entry).ok /\ t.entry \notin DOMAIN cache

(* C9: drop first sets the current token and then waits for the pool; when   *)
(* it has returned no task is queued or running, and nothing touches the     *)
(* cache or the container afterwards.                                        *)
C9_Joined ==
  /\ caller.pc = "drop_join" => tokens[Cur]
  /\ phase = "dropped" => (PoolDrained /\ tokens[Cur])

C9_NothingAfterDrop ==
  phase = "dropped" => UNCHANGED <<cache, queue, active, preload_log, tokens>>

C9_Teardown == []C9_Joined /\ [][C9_NothingAfterDrop]_vars

C9_Witness ==
  /\ phase = "dropped"
  /\ Len(tokens) > 1
  /\ preload_log = "Preloaded"
  /\ DOMAIN cache # EntrySet

(* C10: a preload task whose load fails adds no key, leaves the loader and   *)
(* the waiting tasks as they are, the other entries of the range are still   *)
(* loaded and inserted, and a later get_image of the failed entry goes to    *)
(* the container again.                                                      *)
C10_FailureIsLocal ==
  \A t \in active :
    (t \notin active' /\ ~load_image(t.entry).ok)
      => /\ active' = active \ {t}
         /\ UNCHANGED <<cache, queue, phase, thread_pool, tokens, caller>>

C10_FailedNotCached == \A e \in DOMAIN cache : load_image(e).ok

C10_Retried ==
  (ret.op = "get_image" /\ ~load_image(ret.entry).ok)
    => (ret.invoked /\ ret.res = load_image(ret.entry))

C10_OthersLoaded ==
  (/\ ret.op = "request_preload"
   /\ caller.pc # "drop_join"
   /\ PoolDrained)
    => \A e \in RangeEntries(ret.begin_index, ret.count) : load_image(e).ok => Cached(e)

C10_PreloadBestEffort ==
  /\ [](C10_FailedNotCached /\ C10_Retried /\ C10_OthersLoaded)
  /\ [][C10_FailureIsLocal]_vars

C10_Witness ==
  /\ preload_log = "Failed to preload image"
  /\ DOMAIN cache # {}
  /\ ret.op = "get_image"
  /\ ret.entry \in EntrySet
  /\ ~ret.res.ok
  /\ ret.invoked

(* C11: a direct get_image(e) whose container load or resize fails returns   *)
(* that error to the caller and leaves the loader as it was: no key is       *)
(* inserted into the cache, and the tokens, the current token and the queue  *)
(* of tasks are untouched.                                                   *)
C11_ErrorReturned ==
  (ret.op = "get_image" /\ ~ret.res.ok)
    => /\ ret.invoked
       /\ ret.res = load_image(ret.entry)
       /\ ret.res.err \in {"EntryNotFound", "Io", "Decode"}

C11_LoaderUntouched ==
  (caller.pc = "gi_load" /\ caller'.pc = "idle" /\ ~ret'.res.ok)
    => UNCHANGED <<cache, tokens, is_preloading_cancel_requested, queue, active>>

C11_GetImageErrorPropagates == []C11_ErrorReturned /\ [][C11_LoaderUntouched]_vars

C11_Witness ==
  /\ ret.op = "get_image"
  /\ ~ret.res.ok
  /\ ret.res.err = "Decode"
  /\ queue # << >>
  /\ ~tokens[Cur]
  /\ cache # << >>


(* C12: for every container variant, get_image with an identifier that is   *)
(* not one of the container's entries returns the error kind EntryNotFound.  *)
C12_MissingIsEntryNotFound ==
  (probe.fn = "get_image" /\ probe.name \notin EntryNames(probe.entries))
    => probe.out = Err("EntryNotFound")


(* C13: get_preview_image(e) returns None exactly when the full image of e   *)
(* is cached at the call, and then get_thumbnail is not invoked; otherwise   *)
(* it returns what the container's get_thumbnail returns; the cache is left  *)
(* unchanged, no thumbnail is ever a cache value, and the command's response *)
(* has an empty body exactly in the None case.                               *)
C13_PreviewStep ==
  (ops' # ops /\ caller'.pc = "idle" /\ ret'.op = "get_preview_image")
    => /\ (ret'.res = [ok |-> TRUE, some |-> FALSE]) <=> (ret'.entry \in DOMAIN cache)
       /\ ret'.invoked <=> (ret'.entry \notin DOMAIN cache)
       /\ ret'.entry \notin DOMAIN cache
            => (LET t == ContainerGetThumbnail(ret'.entry) IN
                IF t.ok THEN ret'.res = [ok |-> TRUE, some |-> TRUE, image |-> t.image]
                ELSE ret'.res = t)
       /\ cache' = cache
       /\ (ret'.response.ok /\ Len(ret'.response.body) = 0)
            <=> (ret'.entry \in DOMAIN cache)

C13_NoThumbnailCached == \A e \in DOMAIN cache : cache[e].data[1] # "jpeg10"

C13_PreviewContract == []C13_NoThumbnailCached /\ [][C13_PreviewStep]_vars

C13_Witness ==
  /\ ret.op = "get_preview_image"
  /\ ret.res = [ok |-> TRUE, some |-> FALSE]
  /\ ret.response = [ok |-> TRUE, body |-> << >>]
  /\ DOMAIN cache = {ret.entry}


(* C14: get_image_from_cache(e) is a pure lookup: it returns Some(image)     *)
(* exactly when e is a key of the cache (the image stored under e), it does  *)
(* not go to the container for an entry that is not cached, and it changes   *)
(* neither the cache, the tokens nor the tasks.                              *)
C14_PureLookup ==
  [][(ops' # ops /\ caller'.pc = "idle" /\ ret'.op = "get_image_from_cache")
       => /\ ret'.res = IF ret'.entry \in DOMAIN cache
                        THEN [some |-> TRUE, image |-> cache[ret'.entry]]
                        ELSE [some |-> FALSE]
          /\ UNCHANGED <<cache, tokens, is_preloading_cancel_requested, queue,
                         active, preload_log>>]_vars

C14_Witness ==
  /\ ret.op = "get_image_from_cache"
  /\ ~ret.res.some
  /\ load_image(ret.entry).ok
  /\ queue # << >>
  /\ cache # << >>


(* C15: request_preload(begin_index, count) with begin_index >= end, where   *)
(* end = min(begin_index + count, entry_count), is a no-op that returns Ok:  *)
(* no task is scheduled and the cache, the tokens and the tasks stay as they *)
(* are; a range that is not empty is not treated as empty.                   *)
C15_IsCall == ops' # ops /\ caller'.pc = "idle" /\ ret'.op = "request_preload"

C15_Empty ==
  ret'.begin_index >= Min(ret'.begin_index + ret'.count, NumEntries)

C15_EmptyRangeNoOp ==
  [][C15_IsCall
       => /\ ret'.res = "Ok"
          /\ C15_Empty => UNCHANGED <<cache, tokens, is_preloading_cancel_requested,
                                      queue, active, preload_log>>
          /\ ~C15_Empty => is_preloading_cancel_requested' # is_preloading_cancel_requested]_vars

C15_Witness ==
  /\ ret.op = "request_preload"
  /\ ret.begin_index = NumEntries
  /\ ret.count > 0
  /\ ret.res = "Ok"
  /\ queue # << >>
  /\ ~tokens[Cur]


(* C16: the cache of one ImageLoader only grows: no step of get_image,       *)
(* get_preview_image, get_image_from_cache, request_preload, cancel_preload, *)
(* a preload task or drop's wait removes a key that is present.              *)
C16_CacheMonotonic ==
  [][\A e \in DOMAIN cache : e \in DOMAIN cache']_vars

C16_Witness ==
  /\ DOMAIN cache = EntrySet
  /\ ret.op = "cancel_preload"
  /\ ops = MaxOps
  /\ preload_log = "Preloaded"


(* C17: a direct get_image(e) and a preload task for e may both load and     *)
(* both insert; whatever the interleaving, every cache value is the          *)
(* deterministic load result of its entry, a get_image that returned got     *)
(* that value, the second of two racing inserts leaves the whole cache as it *)
(* is, and a step adds no key but the one being inserted and changes no      *)
(* value.                                                                    *)
C17_CacheIsLoadResult ==
  /\ \A e \in DOMAIN cache : load_image(e).ok /\ cache[e] = load_image(e).image
  /\ (ret.op = "get_image" /\ ret.res.ok)
       => (ret.res.image = load_image(ret.entry).image
           /\ cache[ret.entry] = ret.res.image)

C17_Inserted ==
  (IF caller.pc = "gi_load" /\ caller'.pc = "idle" THEN {caller.entry} ELSE {})
    \cup {t.entry : t \in active \ active'}

C17_RacingInsert ==
  /\ \A e \in DOMAIN cache : e \in DOMAIN cache' /\ cache'[e] = cache[e]
  /\ (DOMAIN cache') \ (DOMAIN cache) \subseteq C17_Inserted
  /\ C17_Inserted \subseteq DOMAIN cache => cache' = cache

C17_RaceIsBenign == []C17_CacheIsLoadResult /\ [][C17_RacingInsert]_vars

C17_Witness ==
  /\ ret.op = "get_image"
  /\ ret.invoked
  /\ ret.res.ok
  /\ ret.res.image.data[1] = "jpeg80"
  /\ preload_log = "Preloaded"
  /\ DOMAIN cache = {ret.entry}
  /\ Len(tokens) = 2
  /\ ops = 2
  /\ PoolDrained


(* C18: for every number n >= 1 of available cores, the preload pool made by *)
(* ImageLoader::new has max(1, n / 2) threads: half the cores, never fewer   *)
(* than one.                                                                 *)
C18_HalfTheCores ==
  probe.fn = "PoolThreads"
    => (~probe.panics /\ probe.out = Max(1, probe.num_cpus \div 2))


(* C19: the resize policy of the load path: with max_height = 0 or a source  *)
(* height <= max_height the container's image is kept as it is (data, width  *)
(* and height); otherwise the result has height = max_height and a width     *)
(* that keeps the source's aspect ratio up to rounding (and is at least 1).  *)
C19_Kept ==
  (probe.max_height = 0 \/ probe.image.height <= probe.max_height)
    => probe.out = Ok(probe.image)

C19_Scaled ==
  (probe.max_height > 0 /\ probe.image.height > probe.max_height /\ probe.out.ok)
    => LET exact == probe.image.width * probe.max_height
           got == probe.out.image.width * probe.image.height
       IN /\ probe.out.image.height = probe.max_height
          /\ probe.out.image.width >= 1
          /\ \/ (2 * (got - exact) <= probe.image.height
                  /\ 2 * (exact - got) <= probe.image.height)
             \/ (probe.out.image.width = 1 /\ exact < probe.image.height)
          /\ probe.out.image.data = <<"jpeg80", probe.image.data, probe.max_height>>

C19_ResizePolicy == probe.fn = "load_image" => (C19_Kept /\ C19_Scaled)

C19_Witness ==
  /\ probe.fn = "load_image"
  /\ probe.out.ok
  /\ probe.image.width > probe.image.height
  /\ probe.image.height > probe.max_height
  /\ probe.max_height > 0
  /\ (probe.image.width * probe.max_height) % probe.image.height # 0
  /\ probe.out.image.height = probe.max_height


(* C20: when open_container fails, the container state is left either        *)
(* exactly as it was before the call or fully cleared: it is never the case  *)
(* that container is None while image_loader still holds the loader of the   *)
(* previously open container.                                                *)
C20_FailedOpenKeepsOrClears ==
  (probe.fn = "open_container" /\ ~probe.out.ok)
    => \/ container_state = probe.before
       \/ container_state = [container |-> None, image_loader |-> None]


(* C21: a get_entries_in_container(path) that succeeds returns the entry     *)
(* list and the is_directory flag of the container it has just opened, and   *)
(* the new loader has received request_preload(0, entry_count) when the      *)
(* command returns: one task per entry under a fresh token when there are    *)
(* entries; when opening fails the command returns the error and no loader   *)
(* receives a preload.  A command that cannot lock the state returns the     *)
(* Mutex error; on a machine that gives the pool no thread the command       *)
(* panics instead of returning, and no loader receives a preload either.     *)
C21_Returned ==
  (probe.fn = "get_entries_in_container" /\ probe.out.ok /\ caller.pc = "idle")
    => /\ container_state.container.some
       /\ probe.out.entries = get_entries(container_state.container.value)
       /\ probe.out.is_directory <=> (container_state.container.value.variant = "Directory")
       /\ container_state.image_loader.some
       /\ container_state.image_loader.value.container = container_state.container.value

C21_PreloadIssued ==
  (probe'.fn = "get_entries_in_container" /\ probe'.out.ok /\ probe' # probe)
    => LET il == container_state'.image_loader.value
           n == Len(probe'.out.entries)
       IN /\ Len(il.queue) = n
          /\ \A i \in 1..n :
               il.queue[i] = [entry |-> probe'.out.entries[i],
                              token |-> il.is_preloading_cancel_requested]
          /\ ~il.tokens[il.is_preloading_cancel_requested]
          /\ n > 0 => (il.tokens = <<TRUE, FALSE>> /\ il.is_preloading_cancel_requested = 2)

C21_NoPreloadOnError ==
  (probe'.fn = "get_entries_in_container" /\ ~probe'.out.ok /\ probe' # probe)
    => /\ \/ probe'.out.err \in {"Path", "UnsupportedContainer", "Constructor"}
          \/ probe'.out.err = "Mutex" /\ phase = "panicked"
          \/ probe'.out.err = "Panic" /\ thread_pool = 0 /\ phase' = "panicked"
       /\ container_state'.image_loader = container_state.image_loader

C21_OpenThenPreload ==
  []C21_Returned /\ [][C21_PreloadIssued /\ C21_NoPreloadOnError]_vars

C21_Witness ==
  /\ probe.fn = "get_entries_in_container"
  /\ probe.out.ok
  /\ Len(probe.out.entries) > 0
  /\ Len(container_state.image_loader.value.queue) = Len(probe.out.entries)
  /\ container_state.image_loader.value.cache = << >>


(* C22: the body of the get_image command is the 4 bytes of the width, most  *)
(* significant first, the 4 bytes of the height, most significant first, and *)
(* then the image data; reading the first 8 bytes as two big-endian u32 and  *)
(* taking the rest gives back the width, the height and the data.            *)
C22_Layout ==
  /\ Len(probe.out) = 8 + Len(probe.image.data)
  /\ \A i \in 1..8 : probe.out[i] \in 0..255
  /\ probe.out[4] = probe.image.width % 256
  /\ probe.out[1] = probe.image.width \div 16777216
  /\ probe.out[8] = probe.image.height % 256
  /\ probe.out[5] = probe.image.height \div 16777216
  /\ \A i \in 1..Len(probe.image.data) : probe.out[8 + i] = probe.image.data[i]

C22_ResponseRoundTrip ==
  probe.fn = "response" => (C22_Layout /\ ReadResponse(probe.out) = probe.image)

C22_Witness ==
  /\ probe.fn = "response"
  /\ probe.image.width = 65536
  /\ probe.image.height = 255
  /\ Len(probe.image.data) = MaxDim
  /\ probe.out[2] = 1
  /\ probe.out[8] = 255


(* C23: set_max_image_height, set_image_resize_method and                    *)
(* set_pdf_rendering_height change the stored settings only: the open        *)
(* container, its loader (height limit, filter) and the loader's cache stay  *)
(* as they are, the open loader keeps loading under the limit it was built   *)
(* with (no limit for 0, nor for a stored negative height, which the loader  *)
(* holds as a u32 above every height), and a loader built by a later         *)
(* open_container takes the settings stored at that time.                    *)
C23_SettingsFrame ==
  settings' # settings
    => /\ container_state' = container_state
       /\ probe'.fn \in {"set_max_image_height", "set_image_resize_method",
                         "set_pdf_rendering_height"}
       /\ probe'.out.ok

C23_LoaderKeepsParameters ==
  (container_state.image_loader.some /\ container_state'.image_loader.some
   /\ container_state'.image_loader.value.container
        = container_state.image_loader.value.container
   /\ caller' = caller
   /\ probe'.fn # "get_entries_in_container")
    => /\ container_state'.image_loader.value.max_image_height
            = container_state.image_loader.value.max_image_height
       /\ container_state'.image_loader.value.resize_method
            = container_state.image_loader.value.resize_method
       /\ container_state'.container = container_state.container

C23_NewLoaderTakesSettings ==
  (probe'.fn = "get_entries_in_container" /\ probe'.out.ok /\ probe' # probe)
    => /\ settings' = settings
       /\ container_state'.image_loader.value.max_image_height = settings.max_image_height
       /\ container_state'.image_loader.value.resize_method = settings.image_resize_method
       /\ container_state'.container.value.variant = "Pdf"
            => container_state'.container.value.render_config
                 = Some(settings.pdf_rendering_height)

C23_CacheUnderOwnLimit ==
  container_state.image_loader.some
    => LET il == container_state.image_loader.value IN
       \A e \in DOMAIN il.cache :
         /\ il.max_image_height <= 0 => il.cache[e] = SrcImage(e)
         /\ il.max_image_height > 0 => il.cache[e].height <= il.max_image_height

C23_FixedAtConstruction ==
  /\ []C23_CacheUnderOwnLimit
  /\ [][C23_SettingsFrame /\ C23_LoaderKeepsParameters /\ C23_NewLoaderTakesSettings]_vars

C23_Witness ==
  /\ probe.fn = "get_image"
  /\ probe.out.ok
  /\ container_state.image_loader.some
  /\ container_state.image_loader.value.max_image_height = 0
  /\ settings.max_image_height = 1
  /\ settings.image_resize_method # container_state.image_loader.value.resize_method
  /\ container_state.container.some
  /\ container_state.container.value.variant = "Pdf"
  /\ container_state.container.value.render_config # Some(settings.pdf_rendering_height)
  /\ probe.out.body[2] > settings.max_image_height


(* C24: Container::is_supported_format(filename) is true exactly when the    *)
(* lower-cased file name ends with .pdf, .rar, .zip or .epub: true for       *)
(* "x.PDF", "x.rar", "x.ZIP" and "x.epub", false for "x.txt", "x" and "".    *)
C24_SupportedSuffixes ==
  {<<".", "p", "d", "f">>, <<".", "r", "a", "r">>, <<".", "z", "i", "p">>,
   <<".", "e", "p", "u", "b">>}

C24_Named ==
  /\ probe.filename \in {<<"x", ".", "P", "D", "F">>, <<"x", ".", "r", "a", "r">>,
                         <<"x", ".", "Z", "I", "P">>, <<"x", ".", "e", "p", "u", "b">>}
       => probe.out
  /\ probe.filename \in {<<"x", ".", "t", "x", "t">>, <<"x">>, << >>} => ~probe.out

C24_FormatGate ==
  probe.fn = "is_supported_format"
    => /\ probe.out <=> \E suffix \in C24_SupportedSuffixes :
                          ends_with(to_lowercase(probe.filename), suffix)
       /\ C24_Named


(* C25: the entry list of a Directory, Zip or Rar container holds exactly    *)
(* the names of the non-directory files with an image suffix, each once, in  *)
(* case-insensitive natural order, a run of digits counting as the number it *)
(* spells; the files "10.png", "2.png", "1.png" are listed as "1.png",       *)
(* "2.png", "10.png".                                                        *)
RECURSIVE C25_RunEnd(_, _)
C25_RunEnd(s, i) == IF DigitAt(s, i) >= 0 THEN C25_RunEnd(s, i + 1) ELSE i

RECURSIVE C25_RunValue(_, _, _)
C25_RunValue(s, i, acc) ==
  IF DigitAt(s, i) >= 0 THEN C25_RunValue(s, i + 1, 10 * acc + DigitAt(s, i)) ELSE acc

RECURSIVE C25_NaturalCmp(_, _, _, _)
C25_NaturalCmp(a, b, i, j) ==
  IF i > Len(a) /\ j > Len(b) THEN 0
  ELSE IF i > Len(a) THEN -1
  ELSE IF j > Len(b) THEN 1
  ELSE IF DigitAt(a, i) >= 0 /\ DigitAt(b, j) >= 0
  THEN IF C25_RunValue(a, i, 0) # C25_RunValue(b, j, 0)
       THEN Cmp(C25_RunValue(a, i, 0), C25_RunValue(b, j, 0))
       ELSE C25_NaturalCmp(a, b, C25_RunEnd(a, i), C25_RunEnd(b, j))
  ELSE IF a[i] # b[j] THEN Cmp(CodePoint(a[i]), CodePoint(b[j]))
  ELSE C25_NaturalCmp(a, b, i + 1, j + 1)

C25_ImageFiles ==
  {probe.files[i].name : i \in {k \in 1..Len(probe.files) :
      /\ ~probe.files[k].is_dir
      /\ \E suffix \in {<<".", "p", "n", "g">>, <<".", "j", "p", "g">>} :
           ends_with(to_lowercase(probe.files[k].name), suffix)}}

C25_EntryList ==
  probe.fn = "get_entries"
    => /\ {probe.out[i] : i \in 1..Len(probe.out)} = C25_ImageFiles
       /\ Len(probe.out) = Cardinality(C25_ImageFiles)
       /\ \A i, j \in 1..Len(probe.out) :
            i < j => C25_NaturalCmp(to_lowercase(probe.out[i]),
                                    to_lowercase(probe.out[j]), 1, 1) <= 0
       /\ FileNames(probe.files) = << <<"1", "0", ".", "p", "n", "g">>,
                                      <<"2", ".", "p", "n", "g">>,
                                      <<"1", ".", "p", "n", "g">> >>
            => probe.out = << <<"1", ".", "p", "n", "g">>,
                              <<"2", ".", "p", "n", "g">>,
                              <<"1", "0", ".", "p", "n", "g">> >>


(* C26: a request_preload with a non-empty range appends to the pool's queue *)
(* exactly one task for each entry of the range that is not cached at the    *)
(* call and no task for any other entry, and returns Ok in the same step:    *)
(* no task is started or finished, and nothing is loaded, before it returns. *)
C26_IsCall == ops' # ops /\ caller'.pc = "idle" /\ ret'.op = "request_preload"

C26_Range ==
  {entries[k + 1] : k \in {i \in 0..(NumEntries - 1) :
      ret'.begin_index <= i /\ i < ret'.begin_index + ret'.count}}

C26_Scheduled(e) ==
  {i \in (Len(queue) + 1)..Len(queue') : queue'[i].entry = e}

C26_OneTaskPerUncachedEntry ==
  [][(C26_IsCall /\ C26_Range # {})
       => /\ Len(queue') >= Len(queue)
          /\ SubSeq(queue', 1, Len(queue)) = queue
          /\ \A e \in Names :
               Cardinality(C26_Scheduled(e)) =
                 IF e \in C26_Range /\ e \notin DOMAIN cache THEN 1 ELSE 0
          /\ \A i \in (Len(queue) + 1)..Len(queue') :
               queue'[i].token = is_preloading_cancel_requested'
          /\ ret'.res = "Ok"
          /\ UNCHANGED <<active, cache, preload_log>>]_vars

C26_Witness ==
  /\ ret.op = "request_preload"
  /\ ret.begin_index = 0
  /\ ret.count = NumEntries
  /\ ret.res = "Ok"
  /\ DOMAIN cache = {entries[1]}
  /\ preload_log = ""
  /\ active = {}
  /\ queue = <<[entry |-> entries[NumEntries], token |-> Cur]>>


(* C27: no thread holds the cache's lock while it loads: the lock is held    *)
(* only by a thread that is at its lookup or at its insert, and whenever a   *)
(* thread is inside a load and another thread holds the lock, that thread's  *)
(* lookup or insert can complete.                                            *)
C27_AtMapOperation(t) == format_container.threads[t].pc \in {"lookup", "insert"}

C27_NoLockAcrossLoad ==
  format_container # NoContainer
    => /\ \A t \in Threads : format_container.lock = t => C27_AtMapOperation(t)
       /\ \A t, u \in Threads :
            (format_container.threads[u].pc = "load" /\ format_container.lock = t)
              => t # u /\ ENABLED (ThreadLookup(t) \/ ThreadInsert(t))

C27_Witness ==
  /\ format_container # NoContainer
  /\ format_container.threads[1].pc = "load"
  /\ format_container.threads[CallerThread].pc = "insert"
  /\ format_container.lock = CallerThread
  /\ CurrentEntry(1) = CurrentEntry(CallerThread)


(* C28: in a PdfContainer a thread has a rendering-engine binding exactly    *)
(* from the start of a load to the end of that call or loop iteration, the   *)
(* binding is one constructed for that load, and no two threads have the     *)
(* same binding.                                                             *)
C28_Rendering(t) ==
  format_container.threads[t].pc \in {"load", "lock_insert", "insert"}

C28_OwnBindingPerRender ==
  format_container # NoContainer
    => /\ \A t \in Threads :
            format_container.threads[t].pdfium # 0
              <=> (format_container.variant = "Pdf" /\ C28_Rendering(t))
       /\ \A t \in Threads : format_container.threads[t].pdfium <= format_container.bindings
       /\ \A t, u \in Threads :
            (t # u /\ format_container.threads[t].pdfium # 0)
              => format_container.threads[t].pdfium # format_container.threads[u].pdfium

C28_Witness ==
  /\ format_container # NoContainer
  /\ format_container.variant = "Pdf"
  /\ format_container.threads[CallerThread].pc = "load"
  /\ format_container.threads[1].pc = "load"
  /\ format_container.threads[1].added # {}
  /\ format_container.bindings = 3


(* C29: when the preload of a request_preload(begin, count) on a Directory,  *)
(* Zip, Rar or Pdf container has finished (and the container is not being    *)
(* dropped), the keys it added are entries at the indices                    *)
(* [begin, min(begin + count, entry_count)) that were not cached at the      *)
(* call, and every such entry that can be loaded is a key of the cache; no   *)
(* preload is started for a range that begins at or beyond entry_count.      *)
C29_Range(job) ==
  {entries[k + 1] : k \in {i \in 0..(NumEntries - 1) :
      job.begin_index <= i /\ i < Min(job.begin_index + job.count, NumEntries)}}

C29_PreloadedRange ==
  format_container # NoContainer
    => /\ \A k \in 1..Len(format_container.queue) :
            C29_Range(format_container.queue[k]) # {}
       /\ (/\ format_container.finished # NoJob
           /\ ~format_container.is_preloading_cancel_requested)
            => /\ format_container.finished.added
                    \subseteq C29_Range(format_container.finished)
                                \ format_container.finished.before
               /\ \A e \in C29_Range(format_container.finished)
                             \ format_container.finished.before :
                    kind[e] = "ok" => e \in format_container.cache


(* C30: in the preload of a Directory, Zip or Pdf container an entry whose   *)
(* load fails does not block the entries after it: when the preload has      *)
(* finished (and the container is not being dropped), every later entry of   *)
(* the range whose load succeeds is in the cache.                            *)
C30_FailureDoesNotBlock ==
  (/\ format_container # NoContainer
   /\ format_container.variant \in {"Directory", "Zip", "Pdf"}
   /\ format_container.finished # NoJob
   /\ ~format_container.is_preloading_cancel_requested)
    => \A i, j \in (format_container.finished.begin_index + 1)..format_container.finished.end :
         (i < j /\ kind[entries[i]] # "ok" /\ kind[entries[j]] = "ok")
           => entries[j] \in format_container.cache


(* C31: RarContainer.get_image(e) on a cache miss visits the headers in      *)
(* archive order from the first one: every header before the first whose     *)
(* filename is e is skipped, that header is read and no header after it is   *)
(* visited; when no filename is e every header is skipped and the result is  *)
(* the entry-not-found error.                                                *)
C31_Matches ==
  {k \in 1..Len(probe.archive) : probe.archive[k].filename = probe.entry}

C31_FirstMatch == CHOOSE k \in C31_Matches : \A j \in C31_Matches : k <= j

C31_WalkFromStart ==
  probe.fn = "RarContainer::get_image"
    => IF C31_Matches = {}
       THEN /\ probe.out.visited = [k \in 1..Len(probe.archive) |-> "skip"]
            /\ probe.out.res = Err("ContainerError: Entry not found")
       ELSE /\ probe.out.visited =
                 [k \in 1..C31_FirstMatch |-> IF k = C31_FirstMatch THEN "read" ELSE "skip"]
            /\ probe.archive[C31_FirstMatch].decodes
                 => probe.out.res = Ok(SrcImage(probe.entry))
            /\ probe.out.res # Err("ContainerError: Entry not found")

C31_Witness ==
  /\ probe.fn = "RarContainer::get_image"
  /\ Len(probe.archive) = MaxFiles
  /\ probe.archive[1].filename # probe.entry
  /\ probe.archive[2].filename = probe.entry
  /\ probe.archive[3].filename = probe.entry
  /\ probe.out.visited = <<"skip", "read">>
  /\ probe.out.res.ok


(* C32: open_container opens a DirectoryContainer for a directory; otherwise *)
(* the extension, compared without regard to case, selects zip, pdf, rar or  *)
(* epub; any other extension gives UnsupportedContainer and a path without   *)
(* extension gives a Path error; on success container and image_loader are   *)
(* both Some and the loader wraps that same container.  The call succeeds    *)
(* wherever the constructor accepts the path and the machine has two cores   *)
(* or more; with one core it panics once the container is assigned.          *)
C32_HasExtension ==
  \E p \in 2..Len(probe.filename) : probe.filename[p] = "."

C32_Extension ==
  LET p == CHOOSE p \in 2..Len(probe.filename) :
             /\ probe.filename[p] = "."
             /\ \A q \in (p + 1)..Len(probe.filename) : probe.filename[q] # "."
  IN to_lowercase(SubSeq(probe.filename, p + 1, Len(probe.filename)))

C32_Selected ==
  IF probe.is_dir THEN "Directory"
  ELSE IF C32_Extension = <<"z", "i", "p">> THEN "Zip"
  ELSE IF C32_Extension = <<"p", "d", "f">> THEN "Pdf"
  ELSE IF C32_Extension = <<"r", "a", "r">> THEN "Rar"
  ELSE IF C32_Extension = <<"e", "p", "u", "b">> THEN "Epub"
  ELSE "Unsupported"

C32_Dispatch ==
  probe.fn = "open_container(path)"
    => IF ~probe.is_dir /\ ~C32_HasExtension THEN probe.out = Err("Path")
       ELSE IF C32_Selected = "Unsupported" THEN probe.out = Err("UnsupportedContainer")
       ELSE IF ~probe.valid THEN ~probe.out.ok
       ELSE /\ probe.out.ok <=> probe.num_cpus >= 2
            /\ ~probe.out.ok => probe.out = Err("Panic")
            /\ probe.state.container.some
            /\ probe.state.container.value.variant = C32_Selected
            /\ probe.out.ok
                 => /\ probe.state.image_loader.some
                    /\ probe.state.image_loader.value.container
                         = probe.state.container.value

C32_Witness ==
  /\ probe.fn = "open_container(path)"
  /\ probe.filename = <<"a", ".", "p", "d", "f", ".", "Z", "I", "P">>
  /\ ~probe.is_dir
  /\ probe.out.ok
  /\ probe.state.container.value.variant = "Zip"
  /\ probe.state.image_loader.value.container.variant = "Zip"


(* C39: for every name f of a regular file, is_supported_format(f) is true   *)
(* exactly when open_container(f) selects the zip, pdf, rar or epub variant, *)
(* that is, fails neither with UnsupportedContainer nor with the Path error  *)
(* of a missing extension; ".zip" and "a.pdf.rar" included.                  *)
C39_ClassificationAgreesWithDispatch ==
  (probe.fn = "open_container(path)" /\ ~probe.is_dir)
    => (is_supported_format(probe.filename)
          <=> probe.out \notin {Err("Path"), Err("UnsupportedContainer")})


(* C33: the settings commands validate before they change anything:          *)
(* set_pdf_rendering_height rejects every height < 1, set_max_image_height   *)
(* every height < 0, set_image_resize_method the empty string and every name *)
(* other than nearest, triangle, catmullRom, gaussian and lanczos3; a        *)
(* rejected call returns Err and leaves every setting as it was, an accepted *)
(* call stores the given value and changes no other setting.  A call with a  *)
(* valid value is accepted unless the state cannot be locked, which is a     *)
(* rejected call too.                                                        *)
C33_IsCall(fn) == probe'.fn = fn /\ (probe' # probe \/ settings' # settings)

C33_MethodNames ==
  [nearest |-> "Nearest", triangle |-> "Triangle", catmullRom |-> "CatmullRom",
   gaussian |-> "Gaussian", lanczos3 |-> "Lanczos3"]

C33_Rejected == ~probe'.out.ok /\ settings' = settings

C33_ValidateThenStore ==
  [][/\ C33_IsCall("set_pdf_rendering_height")
          => IF probe'.arg < 1 \/ phase = "panicked" THEN C33_Rejected
             ELSE /\ probe'.out.ok
                  /\ settings' = [settings EXCEPT !.pdf_rendering_height = probe'.arg]
     /\ C33_IsCall("set_max_image_height")
          => IF probe'.arg < 0 \/ phase = "panicked" THEN C33_Rejected
             ELSE /\ probe'.out.ok
                  /\ settings' = [settings EXCEPT !.max_image_height = probe'.arg]
     /\ C33_IsCall("set_image_resize_method")
          => IF probe'.arg \notin DOMAIN C33_MethodNames \/ phase = "panicked"
             THEN C33_Rejected
             ELSE /\ probe'.out.ok
                  /\ settings' = [settings EXCEPT
                                    !.image_resize_method = C33_MethodNames[probe'.arg]]]_vars

C33_Witness ==
  /\ probe.fn = "set_image_resize_method"
  /\ probe.arg = "Triangle"
  /\ ~probe.out.ok
  /\ settings.pdf_rendering_height = 1
  /\ settings.max_image_height = 1
  /\ settings.image_resize_method = "Lanczos3"

(* C34: cancel_preload sets the current token and changes nothing else: the  *)
(* cache, the container's files, the closures queued and running and the     *)
(* identity of the current token stay as they were; and a get_image that     *)
(* completes its load while the current token is cancelled still inserts and *)
(* returns the image it loaded.                                              *)
C34_CancelStep ==
  ops' = ops + 1 /\ caller' = caller /\ ret'.op = "cancel_preload"

C34_OnlyTheToken ==
  C34_CancelStep =>
    /\ tokens' = [tokens EXCEPT ![is_preloading_cancel_requested] = TRUE]
    /\ UNCHANGED <<cache, kind, max_image_height, queue, active,
                   is_preloading_cancel_requested, phase, thread_pool>>

C34_GetImageUnaffected ==
  (caller.pc = "gi_load" /\ caller'.pc = "idle"
     /\ tokens[is_preloading_cancel_requested])
    => LET r == load_image(caller.entry) IN
         /\ ret'.res = r
         /\ r.ok => /\ caller.entry \in DOMAIN cache'
                     /\ cache'[caller.entry] = r.image

C34_CancelFrame == [][C34_OnlyTheToken /\ C34_GetImageUnaffected]_vars

C34_Witness ==
  /\ ret.op = "get_image"
  /\ ret.invoked
  /\ ret.res.ok
  /\ ret.entry \in DOMAIN cache
  /\ tokens[is_preloading_cancel_requested]
  /\ phase = "alive"
  /\ queue # << >>

(* C35: under a positive height limit every image the cache holds, put there *)
(* by get_image or by a preload closure, is at most max_image_height high.   *)
C35_CacheWithinLimit ==
  max_image_height > 0
    => \A e \in DOMAIN cache : cache[e].height <= max_image_height

C35_Witness ==
  /\ max_image_height = 2
  /\ DOMAIN cache = EntrySet
  /\ \E e \in EntrySet : SrcImage(e).height > 2 /\ cache[e].height = 2
  /\ \E e \in EntrySet : cache[e] = SrcImage(e)
  /\ preload_log = "Preloaded"
  /\ ret.op = "get_image"
  /\ ret.invoked
  /\ ret.res.ok

(* C36: every key of an ImageLoader's cache is an identifier of the entry    *)
(* list of the container it wraps, so the cache never holds more images than *)
(* the container has entries, whatever names get_image is called with.       *)
C36_KeysAreEntries ==
  probe.fn = "ImageLoader::get_image"
    => /\ DOMAIN probe.cache \subseteq EntryNames(probe.entries)
       /\ Cardinality(DOMAIN probe.cache) <= probe.entries

(* C37: when open_container succeeds while a loader is open, that loader has *)
(* been torn down when the call returns: its current token is set, its pool  *)
(* holds no queued and no running closure, and from then on nothing loads or *)
(* inserts on its behalf.                                                    *)
C37_TornDownAtReturn ==
  (probe.fn = "open_container" /\ probe.out.ok /\ probe.replaced)
    => /\ phase = "dropped"
       /\ tokens[is_preloading_cancel_requested]
       /\ queue = << >>
       /\ active = {}
       /\ container_state.image_loader = Some(NewLoader(NewContainer(probe.path)))

C37_NothingRunsAfter ==
  phase = "dropped" => UNCHANGED <<cache, queue, active, preload_log>>

C37_ReplaceTearsDown == []C37_TornDownAtReturn /\ [][C37_NothingRunsAfter]_vars

C37_Witness ==
  /\ probe.fn = "open_container"
  /\ probe.out.ok
  /\ probe.replaced
  /\ ret.op = "request_preload"
  /\ ret.begin_index = 0
  /\ ret.count = NumEntries
  /\ \A e \in EntrySet : kind[e] = "ok"
  /\ preload_log = "Preloaded"
  /\ DOMAIN cache # EntrySet

(* C38: a drop of the loader, direct or inside the open_container that       *)
(* replaces it, terminates: while the dropping thread waits in join, a       *)
(* pending closure can always take its next step without the calling thread, *)
(* every such step removes one closure from the pool (a queued one leaves at *)
(* its token check, a running one ends with its one load), and the join      *)
(* returns.                                                                  *)
C38_Joining == caller.pc \in {"drop_join", "replace_join"}

C38_Pending == Len(queue) + Cardinality(active)

C38_TasksNeverWait ==
  (C38_Joining /\ C38_Pending > 0) => ENABLED Worker

C38_EveryStepRetires ==
  (C38_Joining /\ (queue' # queue \/ active' # active))
    => Len(queue') + Cardinality(active') = C38_Pending - 1

C38_DropTerminates ==
  /\ []C38_TasksNeverWait
  /\ [][C38_EveryStepRetires]_vars
  /\ (C38_Joining ~> (phase = "dropped"))

C38_Witness ==
  /\ caller.pc = "replace_join"
  /\ active # {}
  /\ Len(queue) > 1
  /\ \A i \in DOMAIN tokens : tokens[i]

(* C40: for every begin_index and count of the machine word, request_preload *)
(* neither panics nor wraps: its end is the smaller of the mathematical sum  *)
(* begin_index + count and the entry count, so a range whose sum leaves the  *)
(* word is clamped to the entry count and does not shrink.                   *)
C40_EndIsMathematicalMin ==
  probe.fn = "request_preload"
    => /\ ~probe.out.panic
       /\ probe.out.end = Min(probe.begin_index + probe.count, probe.total_pages)
       /\ probe.out.range =
            Max(Min(probe.begin_index + probe.count, probe.total_pages)
                  - probe.begin_index, 0)

=============================================================================
